---- MODULE Spec2Model ----
(***************************************************************************)
(* Model of the MySQL MCP server's SQL admission gate (sql_analyzer.py,    *)
(* interceptor.py, sql_parser.py), of its query execution engine and of    *)
(* its connection pool registry (mysql_operations.py), and of the server's *)
(* start and shutdown (server.py).                                         *)
(*                                                                         *)
(* SQL text is a sequence of one-character strings, so that the string     *)
(* operations of the code (strip, split, upper, the `in` substring test,   *)
(* re.search of a literal pattern) are computed on the text itself.        *)
(***************************************************************************)
EXTENDS Integers, Sequences, FiniteSets, TLC

VARIABLES
    environ,        \* os.environ: ENV_TYPE, ALLOWED_RISK_LEVELS, BLOCKED_PATTERNS,
                    \*   MAX_SQL_LENGTH
    sql_analyzer,   \* the process-wide SQLOperationType instance
    request,        \* the statements the caller put into the text (what the text is)
    sql_text,       \* the text handed to the gate
    risk_analysis,  \* the dict returned by the last analyze_risk
    admission,      \* the outcome of the last check_operation
    events,         \* what the call in progress did at the gate and on its connection
    outcome,        \* what the call in progress returned or raised
    loops,          \* the event loop objects of the server's thread
    running,        \* the loop the thread is running, 0 when it runs none
    pool_objects,   \* the aiomysql pools created so far
    _pools,         \* _pools (threading.local): whether it has .pools, and the dict
    tasks,          \* the tasks that call init_database and get_db_connection
    now,            \* time.time()
    _last_cleanup,  \* _last_cleanup
    closer,         \* the close_all_pools coroutine
    shutdown,       \* the cleanup_resources call in progress
    _server_data    \* _server_data: 'loop' and 'db_initialized'

\* the state of the gate and of the execution engine
gatevars ==
    <<environ, sql_analyzer, request, sql_text, risk_analysis, admission, events, outcome>>

\* the state of the pool registry and of the server's life cycle
poolvars ==
    <<loops, running, pool_objects, _pools, tasks, now, _last_cleanup, closer, shutdown,
      _server_data>>

vars == <<gatevars, poolvars>>

(***************************************************************************)
(* Bounds of the model.                                                    *)
(***************************************************************************)
\* the largest number of statements in one text
MaxStmts == 2

\* the largest number of rows a statement yields or affects
MaxRows == 2

\* the largest batch_size of a streamed read
MaxBatchSize == 2

\* the largest number of queries handed to execute_transaction_queries
MaxQueries == 2

\* the largest number of event loops the thread creates
MaxLoops == 3

\* the largest number of pools created
MaxPools == 3

\* the number of tasks that call get_db_connection
MaxTasks == 2

\* the largest number of cleanup intervals that elapse
MaxTicks == 1

\* the largest number of close_all_pools calls
MaxCloseAllCalls == 2

(***************************************************************************)
(* Words, as character sequences.                                          *)
(***************************************************************************)
w_SELECT == <<"S", "E", "L", "E", "C", "T">>
w_INSERT == <<"I", "N", "S", "E", "R", "T">>
w_UPDATE == <<"U", "P", "D", "A", "T", "E">>
w_DELETE == <<"D", "E", "L", "E", "T", "E">>
w_MERGE == <<"M", "E", "R", "G", "E">>
w_CREATE == <<"C", "R", "E", "A", "T", "E">>
w_ALTER == <<"A", "L", "T", "E", "R">>
w_DROP == <<"D", "R", "O", "P">>
w_TRUNCATE == <<"T", "R", "U", "N", "C", "A", "T", "E">>
w_RENAME == <<"R", "E", "N", "A", "M", "E">>
w_SHOW == <<"S", "H", "O", "W">>
w_DESC == <<"D", "E", "S", "C">>
w_DESCRIBE == <<"D", "E", "S", "C", "R", "I", "B", "E">>
w_EXPLAIN == <<"E", "X", "P", "L", "A", "I", "N">>
w_HELP == <<"H", "E", "L", "P">>
w_ANALYZE == <<"A", "N", "A", "L", "Y", "Z", "E">>
w_CHECK == <<"C", "H", "E", "C", "K">>
w_CHECKSUM == <<"C", "H", "E", "C", "K", "S", "U", "M">>
w_OPTIMIZE == <<"O", "P", "T", "I", "M", "I", "Z", "E">>
w_GRANT == <<"G", "R", "A", "N", "T">>
w_WHERE == <<"W", "H", "E", "R", "E">>
w_LIMIT == <<"L", "I", "M", "I", "T">>
w_FROM == <<"F", "R", "O", "M">>
w_JOIN == <<"J", "O", "I", "N">>
w_INTO == <<"I", "N", "T", "O">>
w_TABLE == <<"T", "A", "B", "L", "E">>
w_SET == <<"S", "E", "T">>
w_TABLES == <<"T", "A", "B", "L", "E", "S">>
w_VALUES == <<"V", "A", "L", "U", "E", "S">>
w_ADD == <<"A", "D", "D">>
w_TO == <<"T", "O">>
w_ALL == <<"A", "L", "L">>
w_ON == <<"O", "N">>
w_INT == <<"I", "N", "T">>
w_lc_delete == <<"d", "e", "l", "e", "t", "e">>
w_lc_from == <<"f", "r", "o", "m">>
w_lc_truncate == <<"t", "r", "u", "n", "c", "a", "t", "e">>
w_lc_table == <<"t", "a", "b", "l", "e">>
w_users == <<"u", "s", "e", "r", "s">>
w_logs == <<"l", "o", "g", "s">>
w_nowhere == <<"n", "o", "w", "h", "e", "r", "e">>
w_t == <<"t">>
w_a == <<"a">>
w_id == <<"i", "d">>
w_star == <<"*">>
w_eq == <<"=">>
w_one == <<"1">>
w_paren_one == <<"(", "1", ")">>
w_lit_where == <<"'", "w", "h", "e", "r", "e", "'">>
w_comment_where == <<"/", "*", "w", "h", "e", "r", "e", "*", "/">>
w_DATABASE_call == <<"D", "A", "T", "A", "B", "A", "S", "E", "(", ")">>
w_lc_as == <<"a", "s">>
w_db == <<"d", "b">>
w_LOW == <<"L", "O", "W">>
w_MEDIUM == <<"M", "E", "D", "I", "U", "M">>
w_HIGH == <<"H", "I", "G", "H">>
w_CRITICAL == <<"C", "R", "I", "T", "I", "C", "A", "L">>
w_development == <<"d", "e", "v", "e", "l", "o", "p", "m", "e", "n", "t">>
w_production == <<"p", "r", "o", "d", "u", "c", "t", "i", "o", "n">>

(***************************************************************************)
(* Python string operations, on character sequences.                       *)
(***************************************************************************)
Whitespace == {" ", "\t", "\n"}

LowerLetters == <<"a", "b", "c", "d", "e", "f", "g", "h", "i", "j", "k", "l", "m",
                  "n", "o", "p", "q", "r", "s", "t", "u", "v", "w", "x", "y", "z">>

UpperLetters == <<"A", "B", "C", "D", "E", "F", "G", "H", "I", "J", "K", "L", "M",
                  "N", "O", "P", "Q", "R", "S", "T", "U", "V", "W", "X", "Y", "Z">>

\* the upper-case letter of each lower-case letter
ToUpper == [c \in {LowerLetters[i] : i \in DOMAIN LowerLetters} |->
               UpperLetters[CHOOSE i \in DOMAIN LowerLetters : LowerLetters[i] = c]]

\* the lower-case letter of each upper-case letter
ToLower == [c \in {UpperLetters[i] : i \in DOMAIN UpperLetters} |->
               LowerLetters[CHOOSE i \in DOMAIN UpperLetters : UpperLetters[i] = c]]

upper_char(c) == IF c \in DOMAIN ToUpper THEN ToUpper[c] ELSE c

lower_char(c) == IF c \in DOMAIN ToLower THEN ToLower[c] ELSE c

\* str.upper()
upper(s) == [i \in 1..Len(s) |-> upper_char(s[i])]

\* str.lower()
lower(s) == [i \in 1..Len(s) |-> lower_char(s[i])]

\* str.strip(chars): the text without its leading and trailing characters of chars
strip_chars(s, chars) ==
    IF \A i \in 1..Len(s) : s[i] \in chars
    THEN <<>>
    ELSE LET first == CHOOSE i \in 1..Len(s) :
                          s[i] \notin chars /\ \A j \in 1..(i - 1) : s[j] \in chars
             last  == CHOOSE i \in 1..Len(s) :
                          s[i] \notin chars /\ \A j \in (i + 1)..Len(s) : s[j] \in chars
         IN  SubSeq(s, first, last)

\* str.strip()
strip(s) == strip_chars(s, Whitespace)

\* `sub in s`
contains(s, sub) ==
    \E i \in 0..(Len(s) - Len(sub)) : SubSeq(s, i + 1, i + Len(sub)) = sub

\* the positions at which the words of s.split() start
WordStarts(s) ==
    {i \in 1..Len(s) : s[i] \notin Whitespace /\ (i = 1 \/ s[i - 1] \in Whitespace)}

\* the positions at which the words of s.split() end
WordEnds(s) ==
    {i \in 1..Len(s) : s[i] \notin Whitespace /\ (i = Len(s) \/ s[i + 1] \in Whitespace)}

\* the k-th smallest element of a finite set of integers
Nth(S, k) == CHOOSE x \in S : Cardinality({y \in S : y <= x}) = k

\* str.split(): the words of s, in order
split(s) ==
    LET starts == WordStarts(s)
        ends   == WordEnds(s)
    IN  [k \in 1..Cardinality(starts) |-> SubSeq(s, Nth(starts, k), Nth(ends, k))]

\* str.split(sep) for a one-character separator
split_on(s, sep) ==
    LET at == {i \in 1..Len(s) : s[i] = sep}
        n  == Cardinality(at)
        lo(k) == IF k = 1 THEN 1 ELSE Nth(at, k - 1) + 1
        hi(k) == IF k = n + 1 THEN Len(s) ELSE Nth(at, k) - 1
    IN  [k \in 1..(n + 1) |-> SubSeq(s, lo(k), hi(k))]

\* re.search(pattern, text, re.IGNORECASE) for a pattern without metacharacters
re_search_ignorecase(pattern, text) == contains(upper(text), upper(pattern))

(***************************************************************************)
(* Configuration: os.environ and the values read from it.                  *)
(***************************************************************************)
\* an environment variable that is not set
Unset == [set |-> FALSE, value |-> <<>>]

EnvValue(v) == [set |-> TRUE, value |-> v]

\* os.getenv(name, default)
getenv(env, name, default) == IF env[name].set THEN env[name].value ELSE default

\* `not os.getenv(name)`: unset, or set to the empty string
getenv_falsy(env, name) == ~env[name].set \/ env[name].value = <<>>

\* SQLRiskLevel (IntEnum)
LOW == 1
MEDIUM == 2
HIGH == 3
CRITICAL == 4

SQLRiskLevel == {LOW, MEDIUM, HIGH, CRITICAL}

\* SQLRiskLevel[name], for the names that are members
RiskLevelNames == {w_LOW, w_MEDIUM, w_HIGH, w_CRITICAL}

RiskLevelByName(name) ==
    CASE name = w_LOW -> LOW
      [] name = w_MEDIUM -> MEDIUM
      [] name = w_HIGH -> HIGH
      [] name = w_CRITICAL -> CRITICAL

\* EnvironmentType (Enum): the member with the given value
EnvironmentTypeValues == {w_development, w_production}

DEVELOPMENT == "DEVELOPMENT"
PRODUCTION == "PRODUCTION"

EnvironmentType(value) == IF value = w_production THEN PRODUCTION ELSE DEVELOPMENT

\* SQLConfig.DDL_OPERATIONS, SQLOperationType.ddl_operations
DDL_OPERATIONS == {w_CREATE, w_ALTER, w_DROP, w_TRUNCATE, w_RENAME}

\* SQLConfig.DML_OPERATIONS, SQLOperationType.dml_operations
DML_OPERATIONS == {w_SELECT, w_INSERT, w_UPDATE, w_DELETE, w_MERGE}

\* SQLConfig.METADATA_OPERATIONS, SQLOperationType.metadata_operations
METADATA_OPERATIONS == {w_SHOW, w_DESC, w_DESCRIBE, w_EXPLAIN, w_HELP,
                        w_ANALYZE, w_CHECK, w_CHECKSUM, w_OPTIMIZE}

(***************************************************************************)
(* sql_analyzer.py: SQLOperationType.                                      *)
(***************************************************************************)
\* _parse_risk_levels: the members named in ALLOWED_RISK_LEVELS (default LOW,MEDIUM)
_parse_risk_levels(env) ==
    LET allowed_levels_str == getenv(env, "ALLOWED_RISK_LEVELS", w_LOW \o <<",">> \o w_MEDIUM)
        pieces == split_on(upper(allowed_levels_str), ",")
    IN  {RiskLevelByName(strip(pieces[k])) :
             k \in {j \in DOMAIN pieces : strip(pieces[j]) \in RiskLevelNames}}

\* _parse_blocked_patterns: the non-blank, stripped pieces of BLOCKED_PATTERNS
_parse_blocked_patterns(env) ==
    LET patterns == split_on(getenv(env, "BLOCKED_PATTERNS", <<>>), ",")
    IN  {strip(patterns[k]) : k \in {j \in DOMAIN patterns : strip(patterns[j]) # <<>>}}

\* a slip in __init__: the production default is not applied
SQLOperationType_no_lockdown(env) ==
    LET env_type_str == lower(getenv(env, "ENV_TYPE", w_development))
        env_type == IF env_type_str \in EnvironmentTypeValues
                    THEN EnvironmentType(env_type_str)
                    ELSE DEVELOPMENT
    IN  [env_type |-> env_type,
         ddl_operations |-> DDL_OPERATIONS,
         dml_operations |-> DML_OPERATIONS,
         metadata_operations |-> METADATA_OPERATIONS,
         allowed_risk_levels |-> _parse_risk_levels(env),
         blocked_patterns |-> _parse_blocked_patterns(env)]

\* SQLOperationType.__init__
SQLOperationType(env) ==
    LET env_type_str == lower(getenv(env, "ENV_TYPE", w_development))
        env_type == IF env_type_str \in EnvironmentTypeValues
                    THEN EnvironmentType(env_type_str)
                    ELSE DEVELOPMENT
    IN  [env_type |-> env_type,
         ddl_operations |-> DDL_OPERATIONS,
         dml_operations |-> DML_OPERATIONS,
         metadata_operations |-> METADATA_OPERATIONS,
         allowed_risk_levels |->
             IF env_type = PRODUCTION /\ getenv_falsy(env, "ALLOWED_RISK_LEVELS")
             THEN {LOW}
             ELSE _parse_risk_levels(env),
         blocked_patterns |-> _parse_blocked_patterns(env)]

\* _check_dangerous_patterns
_check_dangerous_patterns(self, sql_query) ==
    LET sql_upper == upper(sql_query)
    IN  \/ self.env_type = PRODUCTION /\ split(sql_upper)[1] # w_SELECT
        \/ \E pattern \in self.blocked_patterns : re_search_ignorecase(pattern, sql_upper)

\* the character ` (a backquote cannot be written in a string here)
backtick == "backquote"

\* _get_affected_tables (the list, as a set)
_get_affected_tables(self, sql_query) ==
    LET words == split(upper(sql_query))
        table(i) == strip_chars(words[i + 1], {backtick, ";"})
    IN  {table(i) : i \in {j \in DOMAIN words :
             /\ words[j] \in {w_FROM, w_JOIN, w_UPDATE, w_INTO, w_TABLE}
             /\ j + 1 <= Len(words)
             /\ strip_chars(words[j + 1], {backtick, ";"}) \notin {w_SELECT, w_WHERE, w_SET}}}

\* _estimate_impact
_estimate_impact(self, sql_query) ==
    LET operation == upper(split(sql_query)[1])
        has_where == contains(upper(sql_query), w_WHERE)
    IN  [operation |-> operation,
         estimated_rows |->
             IF self.env_type = PRODUCTION
             THEN IF operation = w_SELECT THEN "100" ELSE "inf"
             ELSE IF operation = w_SELECT THEN "100"
                  ELSE IF operation \in {w_UPDATE, w_DELETE}
                       THEN IF has_where THEN "1000" ELSE "inf"
                       ELSE "0",
         needs_where |-> operation \in {w_UPDATE, w_DELETE},
         has_where |-> has_where]

\* a slip in the DDL branch: DROP and TRUNCATE rated like CREATE and ALTER
_calculate_risk_level_flat_ddl(self, sql_query, operation, is_dangerous) ==
    IF is_dangerous THEN CRITICAL
    ELSE IF operation \in self.metadata_operations THEN LOW
    ELSE IF self.env_type = PRODUCTION /\ operation # w_SELECT THEN CRITICAL
    ELSE IF operation \in self.ddl_operations THEN HIGH
    ELSE IF operation = w_SELECT THEN LOW
    ELSE IF operation = w_INSERT THEN MEDIUM
    ELSE IF operation = w_UPDATE
         THEN IF ~contains(upper(sql_query), w_WHERE) THEN HIGH ELSE MEDIUM
    ELSE IF operation = w_DELETE
         THEN IF ~contains(upper(sql_query), w_WHERE) THEN CRITICAL ELSE MEDIUM
    ELSE HIGH

\* _calculate_risk_level
_calculate_risk_level(self, sql_query, operation, is_dangerous) ==
    IF is_dangerous THEN CRITICAL
    ELSE IF operation \in self.metadata_operations THEN LOW
    ELSE IF self.env_type = PRODUCTION /\ operation # w_SELECT THEN CRITICAL
    ELSE IF operation \in self.ddl_operations
         THEN IF operation \in {w_DROP, w_TRUNCATE} THEN CRITICAL ELSE HIGH
    ELSE IF operation = w_SELECT THEN LOW
    ELSE IF operation = w_INSERT THEN MEDIUM
    ELSE IF operation = w_UPDATE
         THEN IF ~contains(upper(sql_query), w_WHERE) THEN HIGH ELSE MEDIUM
    ELSE IF operation = w_DELETE
         THEN IF ~contains(upper(sql_query), w_WHERE) THEN CRITICAL ELSE MEDIUM
    ELSE HIGH

\* a slip in the membership test: every level up to the highest allowed one passes
is_allowed_up_to_highest(self, risk_level) ==
    \E level \in self.allowed_risk_levels : risk_level <= level

\* analyze_risk: `risk_level in self.allowed_risk_levels`
is_allowed(self, risk_level) == risk_level \in self.allowed_risk_levels

\* analyze_risk
analyze_risk(self, query) ==
    LET sql == strip(query)
    IN  IF sql = <<>>
        THEN [operation |-> <<>>,
              operation_type |-> "UNKNOWN",
              is_dangerous |-> TRUE,
              affected_tables |-> {},
              estimated_impact |-> [operation |-> <<>>, estimated_rows |-> "0",
                                    needs_where |-> FALSE, has_where |-> FALSE],
              risk_level |-> HIGH,
              is_allowed |-> FALSE]
        ELSE LET operation == upper(split(sql)[1])
                 is_dangerous == _check_dangerous_patterns(self, sql)
                 risk_level == _calculate_risk_level(self, sql, operation, is_dangerous)
             IN  [operation |-> operation,
                  operation_type |-> IF operation \in self.ddl_operations THEN "DDL" ELSE "DML",
                  is_dangerous |-> is_dangerous,
                  affected_tables |-> _get_affected_tables(self, sql),
                  estimated_impact |-> _estimate_impact(self, sql),
                  risk_level |-> risk_level,
                  is_allowed |-> is_allowed(self, risk_level)]

(***************************************************************************)
(* interceptor.py: SQLInterceptor.                                         *)
(***************************************************************************)
\* the decimal digits
Digits == <<"0", "1", "2", "3", "4", "5", "6", "7", "8", "9">>

RECURSIVE int(_)
\* int(s) for a text of decimal digits
int(s) ==
    IF s = <<>> THEN 0
    ELSE 10 * int(SubSeq(s, 1, Len(s) - 1))
             + (CHOOSE d \in 0..9 : Digits[d + 1] = s[Len(s)])

\* SecurityConfig.MAX_SQL_LENGTH
MAX_SQL_LENGTH(env) == int(getenv(env, "MAX_SQL_LENGTH", <<"1", "0", "0", "0">>))

\* SQLInterceptor.max_sql_length
max_sql_length == 1000

\* the operations check_operation supports
supported_operations ==
    {w_SELECT, w_INSERT, w_UPDATE, w_DELETE,
     w_CREATE, w_ALTER, w_DROP, w_TRUNCATE, w_MERGE,
     w_SHOW, w_DESC, w_DESCRIBE, w_EXPLAIN, w_HELP,
     w_ANALYZE, w_CHECK, w_CHECKSUM, w_OPTIMIZE}

\* no analyze_risk was made
NoAnalysis == [made |-> FALSE]

\* a SecurityException raised by check_operation
Denied(reason, analysis) == [ok |-> FALSE, reason |-> reason, risk_analysis |-> analysis]

\* check_operation returned True
Admitted(analysis) == [ok |-> TRUE, reason |-> "", risk_analysis |-> analysis]

\* SQLInterceptor.check_operation: True, or the SecurityException raised
check_operation(analyzer, query) ==
    IF query = <<>> \/ strip(query) = <<>>
    THEN Denied("empty", NoAnalysis)
    ELSE IF Len(query) > max_sql_length
    THEN Denied("too_long", NoAnalysis)
    ELSE LET sql_parts == split(strip(query))
         IN  IF sql_parts = <<>>
             THEN Denied("invalid_format", NoAnalysis)
             ELSE IF upper(sql_parts[1]) \notin supported_operations
             THEN Denied("unsupported_operation", NoAnalysis)
             ELSE LET risk == analyze_risk(analyzer, query)
                      made == [made |-> TRUE, result |-> risk]
                  IN  IF risk.is_dangerous THEN Denied("dangerous_operation", made)
                      ELSE IF ~risk.is_allowed THEN Denied("risk_level_not_allowed", made)
                      ELSE Admitted(made)

(***************************************************************************)
(* The texts callers submit.  A text is written from a list of statements; *)
(* what each statement is (its verb, whether it has a WHERE clause and a   *)
(* LIMIT clause) is known from how it was written, not from the gate.      *)
(***************************************************************************)
RECURSIVE JoinWith(_, _)
\* the sequences of parts, concatenated with sep between neighbours
JoinWith(parts, sep) ==
    IF parts = <<>> THEN <<>>
    ELSE IF Len(parts) = 1 THEN parts[1]
    ELSE parts[1] \o sep \o JoinWith(Tail(parts), sep)

\* a statement: its verb, the words after it, and its WHERE and LIMIT clauses
Stmt(verb, body, where_clause, limit_clause) ==
    [verb |-> verb, body |-> body, where_clause |-> where_clause, limit_clause |-> limit_clause]

\* the text of one statement
StmtText(s) ==
    JoinWith(<<s.verb>> \o s.body
                 \o (IF s.where_clause THEN <<w_WHERE, w_id, w_eq, w_one>> ELSE <<>>)
                 \o (IF s.limit_clause THEN <<w_LIMIT, w_one>> ELSE <<>>),
             <<" ">>)

\* the operation of a statement: its verb, in upper case
StmtOp(s) == upper(s.verb)

\* the text of a list of statements: one statement as it is, several each closed by ;
BatchText(stmts) ==
    IF Len(stmts) = 1 THEN StmtText(stmts[1])
    ELSE JoinWith([k \in 1..Len(stmts) |-> StmtText(stmts[k]) \o <<";">>], <<" ">>)

st_select == Stmt(w_SELECT, <<w_star, w_FROM, w_users>>, FALSE, FALSE)
st_select_limit == Stmt(w_SELECT, <<w_star, w_FROM, w_users>>, FALSE, TRUE)
st_select_where == Stmt(w_SELECT, <<w_star, w_FROM, w_users>>, TRUE, FALSE)
st_insert == Stmt(w_INSERT, <<w_INTO, w_users, w_VALUES, w_paren_one>>, FALSE, FALSE)
st_update == Stmt(w_UPDATE, <<w_users, w_SET, w_a, w_eq, w_one>>, FALSE, FALSE)
st_update_where == Stmt(w_UPDATE, <<w_users, w_SET, w_a, w_eq, w_one>>, TRUE, FALSE)
st_update_literal == Stmt(w_UPDATE, <<w_users, w_SET, w_a, w_eq, w_lit_where>>, FALSE, FALSE)
st_delete == Stmt(w_DELETE, <<w_FROM, w_users>>, FALSE, FALSE)
st_delete_where == Stmt(w_DELETE, <<w_FROM, w_users>>, TRUE, FALSE)
st_delete_comment == Stmt(w_DELETE, <<w_FROM, w_users, w_comment_where>>, FALSE, FALSE)
st_delete_ident == Stmt(w_lc_delete, <<w_lc_from, w_nowhere>>, FALSE, FALSE)
st_merge == Stmt(w_MERGE, <<w_INTO, w_users>>, FALSE, FALSE)
st_drop == Stmt(w_DROP, <<w_TABLE, w_logs>>, FALSE, FALSE)
st_truncate == Stmt(w_lc_truncate, <<w_lc_table, w_logs>>, FALSE, FALSE)
st_create == Stmt(w_CREATE, <<w_TABLE, w_t>>, FALSE, FALSE)
st_alter == Stmt(w_ALTER, <<w_TABLE, w_users, w_ADD, w_a, w_INT>>, FALSE, FALSE)
st_rename == Stmt(w_RENAME, <<w_TABLE, w_users, w_TO, w_t>>, FALSE, FALSE)
st_show == Stmt(w_SHOW, <<w_TABLES>>, FALSE, FALSE)
st_desc == Stmt(w_DESC, <<w_users>>, FALSE, FALSE)
st_describe == Stmt(w_DESCRIBE, <<w_users>>, FALSE, FALSE)
st_explain == Stmt(w_EXPLAIN, <<w_SELECT, w_star, w_FROM, w_users>>, FALSE, FALSE)
st_help == Stmt(w_HELP, <<w_lit_where>>, FALSE, FALSE)
st_analyze == Stmt(w_ANALYZE, <<w_TABLE, w_users>>, FALSE, FALSE)
st_check == Stmt(w_CHECK, <<w_TABLE, w_users>>, FALSE, FALSE)
st_checksum == Stmt(w_CHECKSUM, <<w_TABLE, w_users>>, FALSE, FALSE)
st_optimize == Stmt(w_OPTIMIZE, <<w_TABLE, w_users>>, FALSE, FALSE)
st_grant == Stmt(w_GRANT, <<w_ALL, w_ON, w_users, w_TO, w_a>>, FALSE, FALSE)

\* the statements a text starts with
FirstStatements ==
    {st_select, st_select_limit, st_select_where, st_insert,
     st_update, st_update_where, st_update_literal,
     st_delete, st_delete_where, st_delete_comment, st_delete_ident, st_merge,
     st_drop, st_truncate, st_create, st_alter, st_rename,
     st_show, st_desc, st_describe, st_explain, st_help,
     st_analyze, st_check, st_checksum, st_optimize, st_grant}

\* the statements that follow the first one in a batch
NextStatements == {st_select_where, st_delete, st_drop}

\* the lists of 1..MaxStmts statements
Batches ==
    UNION {{<<first>> \o rest : first \in FirstStatements, rest \in [1..k -> NextStatements]} :
               k \in 0..(MaxStmts - 1)}

\* a submitted text, with the statements it was written from
Input(stmts, text) == [stmts |-> stmts, text |-> text]

\* the text followed by a comment that brings it to n characters
Lengthen(text, n) ==
    text \o <<" ", "-", "-", " ">> \o [i \in 1..(n - Len(text) - 4) |-> "x"]

\* the texts that are as long as the interceptor's limit, and one character longer
LongInputs ==
    {Input(<<s>>, Lengthen(StmtText(s), n)) :
        s \in {st_select_where, st_grant}, n \in {max_sql_length, max_sql_length + 1}}

\* the texts submitted: every batch, the empty text, a blank text, a text led by blanks,
\* the long texts
Inputs ==
    {Input(b, BatchText(b)) : b \in Batches}
        \cup {Input(<<>>, <<>>), Input(<<>>, <<" ", " ">>),
              Input(<<st_drop>>, <<" ", "\n">> \o StmtText(st_drop))}
        \cup LongInputs

\* the values of the environment variables
EnvTypeValues == {Unset, EnvValue(w_production), EnvValue(<<"D", "e", "v">>)}

AllowedValues ==
    {Unset, EnvValue(<<>>), EnvValue(lower(w_LOW) \o <<",">> \o lower(w_CRITICAL)),
     EnvValue(w_LOW \o <<",", " ">> \o w_MEDIUM \o <<",">> \o w_HIGH \o <<",">> \o w_CRITICAL)}

PatternValues == {Unset, EnvValue(w_logs \o <<",", " ">> \o w_GRANT)}

\* MAX_SQL_LENGTH: not supplied, below the interceptor's limit, above it
MaxLengthValues == {Unset, EnvValue(<<"2", "0">>), EnvValue(<<"2", "0", "0", "0">>)}

\* every policy with MAX_SQL_LENGTH not supplied, and the default policy with it supplied
Environments ==
    [ENV_TYPE : EnvTypeValues, ALLOWED_RISK_LEVELS : AllowedValues,
     BLOCKED_PATTERNS : PatternValues, MAX_SQL_LENGTH : {Unset}]
        \cup [ENV_TYPE : {Unset}, ALLOWED_RISK_LEVELS : {Unset},
              BLOCKED_PATTERNS : {Unset}, MAX_SQL_LENGTH : MaxLengthValues]


(***************************************************************************)
(* sql_parser.py: SQLParser.  The tokenizing is sqlparse's: sqlparse.parse *)
(* of the formatted text gives back the statements the text was written    *)
(* from, each with its clauses grouped.  The formatting (reindent) puts a   *)
(* line break between two statements and the statement splitter starts the  *)
(* next statement at that line break, so the first token of every statement *)
(* after the first one is a Newline token.                                  *)
(***************************************************************************)
\* sqlparse's token type of a statement's leading word
sqlparse_ttype(word) ==
    IF word \in {w_SELECT, w_INSERT, w_UPDATE, w_DELETE, w_MERGE} THEN "DML"
    ELSE IF word \in {w_CREATE, w_ALTER, w_DROP} THEN "DDL"
    ELSE IF word \in {w_TRUNCATE, w_RENAME, w_SHOW, w_DESCRIBE, w_EXPLAIN,
                      w_ANALYZE, w_CHECK, w_GRANT} THEN "Keyword"
    ELSE IF word = w_DESC THEN "Keyword.Order"
    ELSE "Name"

\* a splitter that gives every statement without the line break before it
sqlparse_first_token_stripped(parsed, k) ==
    [ttype |-> sqlparse_ttype(upper(parsed[k].verb)), value |-> upper(parsed[k].verb)]

\* stmt.tokens[0] of the k-th statement of sqlparse.parse(formatted_sql)
sqlparse_first_token(parsed, k) ==
    IF k = 1
    THEN [ttype |-> sqlparse_ttype(upper(parsed[k].verb)), value |-> upper(parsed[k].verb)]
    ELSE [ttype |-> "Newline", value |-> <<"\n">>]

\* _get_operation_type
_get_operation_type(parsed, k) ==
    LET token == sqlparse_first_token(parsed, k)
    IN  IF token.ttype \in {"DML", "DDL", "Keyword"} THEN upper(token.value) ELSE <<>>

\* _get_operation_category
_get_operation_category(operation_type) ==
    IF operation_type \in DDL_OPERATIONS THEN "DDL"
    ELSE IF operation_type \in DML_OPERATIONS THEN "DML"
    ELSE IF operation_type \in METADATA_OPERATIONS THEN "METADATA"
    ELSE "UNKNOWN"

\* _has_where_clause: a Where group among the statement's tokens
_has_where_clause(stmt) == stmt.where_clause

\* _has_limit_clause: a LIMIT keyword among the statement's tokens
_has_limit_clause(stmt) == stmt.limit_clause

\* parse_query on a text that is empty or blank, or that holds no statement
InvalidParse ==
    [operation_type |-> <<>>, has_where |-> FALSE, has_limit |-> FALSE, is_valid |-> FALSE,
     category |-> "UNKNOWN", multi_statement |-> FALSE, statement_count |-> 0]

\* parse_query (the tables of the result are not modelled)
parse_query(input) ==
    IF input.text = <<>> \/ strip(input.text) = <<>> \/ input.stmts = <<>>
    THEN InvalidParse
    ELSE LET parsed == input.stmts
             is_multi_statement == Len(parsed) > 1
             first_operation == _get_operation_type(parsed, 1)
             operations == [k \in DOMAIN parsed |-> _get_operation_type(parsed, k)]
             categories == [k \in DOMAIN parsed |-> _get_operation_category(operations[k])]
             has(op) == \E k \in DOMAIN operations : operations[k] = op
             has_category(c) == \E k \in DOMAIN categories : categories[k] = c
             category ==
                 IF is_multi_statement /\ has_category("DDL") THEN "DDL"
                 ELSE IF is_multi_statement /\ has_category("DML") THEN "DML"
                 ELSE _get_operation_category(first_operation)
             operation_type ==
                 IF is_multi_statement /\ has_category("DDL")
                 THEN IF has(w_DROP) \/ has(w_TRUNCATE)
                      THEN (IF has(w_DROP) THEN w_DROP ELSE w_TRUNCATE)
                      ELSE IF has(w_ALTER) THEN w_ALTER
                      ELSE IF has(w_CREATE) THEN w_CREATE
                      ELSE first_operation
                 ELSE IF is_multi_statement /\ has_category("DML")
                 THEN IF has(w_DELETE) THEN w_DELETE
                      ELSE IF has(w_UPDATE) THEN w_UPDATE
                      ELSE IF has(w_INSERT) THEN w_INSERT
                      ELSE IF has(w_SELECT) THEN w_SELECT
                      ELSE first_operation
                 ELSE first_operation
         IN  [operation_type |-> operation_type,
              has_where |-> \E k \in DOMAIN parsed : _has_where_clause(parsed[k]),
              has_limit |-> \E k \in DOMAIN parsed : _has_limit_clause(parsed[k]),
              is_valid |-> TRUE,
              category |-> category,
              multi_statement |-> is_multi_statement,
              statement_count |-> Len(parsed)]

(***************************************************************************)
(* mysql_operations.py: the execution engine.  `events` is what one call   *)
(* did at the gate and on its connection, in order.                        *)
(***************************************************************************)
EvCheck(sql, ok) == [ev |-> "check_operation", sql |-> sql, ok |-> ok]
EvCursor == [ev |-> "cursor"]
EvExecute(sql, ok) == [ev |-> "execute", sql |-> sql, ok |-> ok]
EvCommit(ok) == [ev |-> "commit", ok |-> ok]
EvRollback(ok) == [ev |-> "rollback", ok |-> ok]
EvBegin(ok) == [ev |-> "begin", ok |-> ok]
EvFetchAll(ok, got) == [ev |-> "fetchall", ok |-> ok, got |-> got]
EvFetchMany(size, ok, got) == [ev |-> "fetchmany", size |-> size, ok |-> ok, got |-> got]
EvFetchOne(ok) == [ev |-> "fetchone", ok |-> ok]
EvCursorClose == [ev |-> "cursor_close"]
EvParse(sql) == [ev |-> "parse_query", sql |-> sql]

\* a call that returned a value, a call that raised
Returned(trace, value) == [events |-> trace, raised |-> "", value |-> value]
Raised(trace, exception) == [events |-> trace, raised |-> exception, value |-> <<>>]

\* what the server and the driver do during a call: which driver call raises
\* aiomysql.Error (fail_op on the fail_at-th statement of the call), whether a
\* rollback raises, and how many rows a read yields
Driver(fail_op, fail_at, rollback_fails, nrows) ==
    [fail_op |-> fail_op, fail_at |-> fail_at, rollback_fails |-> rollback_fails,
     nrows |-> nrows]

\* the rows a cursor yields (DictRow objects)
CursorRows(n) == [i \in 1..n |-> [row |-> i, type |-> "DictRow"]]

\* normalize_result: each row as a plain dict; no rows as the empty list
normalize_result(result_rows) ==
    IF result_rows = <<>> THEN <<>>
    ELSE [i \in DOMAIN result_rows |-> [row |-> result_rows[i].row, type |-> "dict"]]

\* a loop that stops after its first fetchmany
fetchmany_once(rows, fetched, batch_size) ==
    <<SubSeq(rows, fetched + 1,
             IF Len(rows) - fetched < batch_size THEN Len(rows) ELSE fetched + batch_size)>>

RECURSIVE fetchmany_loop(_, _, _)
\* the `while True` loop of the streaming branch, from the cursor position `fetched`:
\* the batches fetchmany(batch_size) returns until the loop breaks
fetchmany_loop(rows, fetched, batch_size) ==
    LET left == Len(rows) - fetched
        got == IF left < batch_size THEN left ELSE batch_size
        batch == SubSeq(rows, fetched + 1, fetched + got)
    IN  IF batch = <<>> THEN <<batch>>
        ELSE IF Len(batch) < batch_size THEN <<batch>>
        ELSE <<batch>> \o fetchmany_loop(rows, fetched + got, batch_size)

RECURSIVE Flatten(_)
\* all_results.extend(dict_batch), batch after batch
Flatten(batches) ==
    IF batches = <<>> THEN <<>> ELSE normalize_result(Head(batches)) \o Flatten(Tail(batches))

\* execute_query(connection, query, params, batch_size, stream_results), as the
\* at-th statement of its call
execute_query(analyzer, input, batch_size, stream_results, driver, at) ==
    LET fails(op) == driver.fail_op = op /\ driver.fail_at = at
        check == check_operation(analyzer, input.text)
        checked == <<EvCheck(input.text, check.ok)>>
        executed == checked \o <<EvCursor, EvExecute(input.text, ~fails("execute"))>>
        parsed_sql == parse_query(input)
        operation == parsed_sql.operation_type
        rows == CursorRows(driver.nrows)
    IN  IF ~check.ok
        THEN Raised(checked, "SecurityException")
        ELSE IF fails("execute")
        THEN \* parsed_sql is still None: no rollback
             Raised(executed \o <<EvCursorClose>>, "ValueError")
        ELSE IF parsed_sql.category = "DML" /\ operation \in {w_UPDATE, w_DELETE, w_INSERT}
        THEN IF fails("commit")
             THEN Raised(executed \o <<EvCommit(FALSE), EvRollback(~driver.rollback_fails),
                                      EvCursorClose>>, "ValueError")
             ELSE Returned(executed \o <<EvCommit(TRUE), EvCursorClose>>,
                           <<[affected_rows |-> driver.nrows]>>)
        ELSE IF fails("fetch")
        THEN Raised(executed
                        \o <<IF parsed_sql.category # "METADATA" /\ stream_results
                             THEN EvFetchMany(batch_size, FALSE, 0)
                             ELSE EvFetchAll(FALSE, 0)>>
                        \o (IF operation \in {w_UPDATE, w_DELETE, w_INSERT}
                            THEN <<EvRollback(~driver.rollback_fails)>> ELSE <<>>)
                        \o <<EvCursorClose>>,
                    "ValueError")
        ELSE IF parsed_sql.category = "METADATA"
        THEN Returned(executed \o <<EvFetchAll(TRUE, Len(rows)), EvCursorClose>>,
                      IF rows = <<>>
                      THEN <<[metadata_operation |-> operation, result_count |-> 0]>>
                      ELSE normalize_result(rows))
        ELSE IF stream_results
        THEN LET batches == fetchmany_loop(rows, 0, batch_size)
             IN  Returned(executed
                              \o [k \in DOMAIN batches |->
                                      EvFetchMany(batch_size, TRUE, Len(batches[k]))]
                              \o <<EvCursorClose>>,
                          Flatten(batches))
        ELSE Returned(executed \o <<EvFetchAll(TRUE, Len(rows)), EvCursorClose>>,
                      normalize_result(rows))

\* results.append(result) after a query that returned; nothing more after one that raised
results_append(one, rest) ==
    IF one.raised # "" THEN one
    ELSE [events |-> one.events \o rest.events,
          raised |-> rest.raised,
          value |-> IF rest.raised # "" THEN <<>> ELSE <<one.value>> \o rest.value]

RECURSIVE execute_each(_, _, _, _)
\* the `for query_item in queries` loop of execute_transaction_queries, from the
\* at-th query on: it stops at the first execute_query that raises
execute_each(analyzer, queries, driver, at) ==
    IF at > Len(queries) THEN Returned(<<>>, <<>>)
    ELSE results_append(execute_query(analyzer, queries[at], 1000, FALSE, driver, at),
                        execute_each(analyzer, queries, driver, at + 1))

\* `except Exception` of transaction(): roll back, then raise again; a rollback
\* that raises replaces the exception
transaction_except(trace, exception, driver) ==
    IF driver.rollback_fails
    THEN Raised(trace \o <<EvRollback(FALSE)>>, "aiomysql.Error")
    ELSE Raised(trace \o <<EvRollback(TRUE)>>, exception)

\* transaction(connection) around a body that left `body`: begin, the body, commit,
\* and the except clause
transaction(body, driver) ==
    IF driver.fail_op = "begin"
    THEN transaction_except(<<EvBegin(FALSE)>>, "aiomysql.Error", driver)
    ELSE IF body.raised # ""
    THEN transaction_except(<<EvBegin(TRUE)>> \o body.events, body.raised, driver)
    ELSE IF driver.fail_op = "transaction_commit"
    THEN transaction_except(<<EvBegin(TRUE)>> \o body.events \o <<EvCommit(FALSE)>>,
                            "aiomysql.Error", driver)
    ELSE Returned(<<EvBegin(TRUE)>> \o body.events \o <<EvCommit(TRUE)>>, body.value)

\* execute_transaction_queries(connection, queries)
execute_transaction_queries(analyzer, queries, driver) ==
    transaction(execute_each(analyzer, queries, driver, 1), driver)

\* the text get_current_database sends
current_database_query == JoinWith(<<w_SELECT, w_DATABASE_call, w_lc_as, w_db>>, <<" ">>)

\* get_current_database(), on the connection its scope acquired
get_current_database(driver) ==
    IF driver.fail_op = "execute"
    THEN Returned(<<EvCursor, EvExecute(current_database_query, FALSE)>>, <<>>)
    ELSE IF driver.fail_op = "fetch"
    THEN Returned(<<EvCursor, EvExecute(current_database_query, TRUE), EvFetchOne(FALSE)>>, <<>>)
    ELSE Returned(<<EvCursor, EvExecute(current_database_query, TRUE), EvFetchOne(TRUE),
                    EvCursorClose>>,
                  IF driver.nrows > 0 THEN w_db ELSE <<>>)

(***************************************************************************)
(* The connection scope and the tool handlers around execute_query.        *)
(***************************************************************************)
EvCall(name) == [ev |-> "call", name |-> name]
EvInitDbPool(require_database, db_set) ==
    [ev |-> "init_db_pool", require_database |-> require_database, db_set |-> db_set]
EvCreatePool(failure) == [ev |-> "create_pool", ok |-> failure.raises = "", failure |-> failure]
EvRegister == [ev |-> "register_pool"]
EvAcquire(ok) == [ev |-> "acquire", ok |-> ok]
EvRelease == [ev |-> "release"]

\* the phrases the except clauses look for in the message of an aiomysql.Error
ErrorMarkers ==
    {"Access denied", "Unknown database", "Can't connect", "Connection refused",
     "Authentication plugin"}

\* a driver message, as the phrases it contains in the order they stand in it
MaxMarkers == 2
Messages ==
    UNION {{msg \in [1..n -> ErrorMarkers] : \A i, j \in 1..n : i # j => msg[i] # msg[j]} :
              n \in 0..MaxMarkers}

\* `phrase in error_msg`
has_phrase(phrase, error_msg) == \E i \in DOMAIN error_msg : error_msg[i] = phrase

\* what a driver call does: it returns, raises aiomysql.Error with a message, or
\* raises another exception
NoFailure == [raises |-> "", message |-> <<>>]
Failures ==
    {NoFailure, [raises |-> "Exception", message |-> <<>>]}
        \cup {[raises |-> "aiomysql.Error", message |-> msg] : msg \in Messages}

\* `except aiomysql.Error as err` of init_db_pool
init_db_pool_except(error_msg) ==
    IF has_phrase("Access denied", error_msg) THEN "MySQLAuthError"
    ELSE IF has_phrase("Unknown database", error_msg) THEN "MySQLDatabaseNotFoundError"
    ELSE IF has_phrase("Can't connect", error_msg) \/ has_phrase("Connection refused", error_msg)
    THEN "MySQLServerError"
    ELSE IF has_phrase("Authentication plugin", error_msg) THEN "MySQLAuthPluginError"
    ELSE "MySQLConnectionError"

\* init_db_pool(require_database=...), with MYSQL_DATABASE configured or not and
\* aiomysql.create_pool doing `create_pool`
init_db_pool(require_database, db_set, create_pool) ==
    LET called == <<EvInitDbPool(require_database, db_set)>>
    IN  IF require_database /\ ~db_set
        THEN \* raise MySQLDatabaseNotFoundError inside the try: `except Exception` has it
             Raised(called, "MySQLConnectionError")
        ELSE IF create_pool.raises = "aiomysql.Error"
        THEN Raised(called \o <<EvCreatePool(create_pool)>>,
                    init_db_pool_except(create_pool.message))
        ELSE IF create_pool.raises # ""
        THEN Raised(called \o <<EvCreatePool(create_pool)>>, "MySQLConnectionError")
        ELSE Returned(called \o <<EvCreatePool(create_pool), EvRegister>>, <<>>)

\* get_pool_for_current_loop() returned a pool
PoolFound == Returned(<<>>, <<>>)

\* `except aiomysql.Error as err` of get_db_connection
get_db_connection_except(error_msg) ==
    IF has_phrase("Access denied", error_msg) THEN "MySQLAuthError"
    ELSE IF has_phrase("Unknown database", error_msg) THEN "MySQLDatabaseNotFoundError"
    ELSE IF has_phrase("Can't connect", error_msg) \/ has_phrase("Connection refused", error_msg)
    THEN "MySQLServerError"
    ELSE IF has_phrase("Authentication plugin", error_msg) THEN "MySQLAuthPluginError"
    ELSE "MySQLConnectionError"

\* a scope that gives the connection back only when its body returned
get_db_connection_leaky(pool, acquire, body) ==
    IF pool.raised # "" THEN pool
    ELSE IF acquire.raises # "" THEN Raised(pool.events \o <<EvAcquire(FALSE)>>, "MySQLConnectionError")
    ELSE IF body.raised = ""
    THEN Returned(pool.events \o <<EvAcquire(TRUE)>> \o body.events \o <<EvRelease>>, body.value)
    ELSE Raised(pool.events \o <<EvAcquire(TRUE)>> \o body.events, "MySQLConnectionError")

\* `async with get_db_connection() as connection: body`: `pool` is the pool of the
\* running loop or what init_db_pool left, `acquire` what pool.acquire() does and
\* `body` what the body left (it raises SecurityException or ValueError, or returns)
get_db_connection(pool, acquire, body) ==
    IF pool.raised # ""
    THEN \* init_db_pool is awaited outside the try
         pool
    ELSE IF acquire.raises = "aiomysql.Error"
    THEN Raised(pool.events \o <<EvAcquire(FALSE)>>, get_db_connection_except(acquire.message))
    ELSE IF acquire.raises # ""
    THEN Raised(pool.events \o <<EvAcquire(FALSE)>>, "MySQLConnectionError")
    ELSE LET trace == pool.events \o <<EvAcquire(TRUE)>> \o body.events \o <<EvRelease>>
         IN  IF body.raised = "" THEN Returned(trace, body.value)
             ELSE \* thrown in at the yield: pool.acquire() releases, `except Exception` has it
                  Raised(trace, "MySQLConnectionError")

\* json.dumps(obj): the text, kept as the sequence holding the object it encodes
json_dumps(obj) == <<obj>>

\* the wrapper of MetadataToolBase.handle_query_error around a handler that left `call`
handle_query_error(call) ==
    IF call.raised = "" THEN call
    ELSE Returned(call.events,
                  json_dumps([error_type |->
                                  IF call.raised = "ParameterValidationError"
                                  THEN "ParameterValidationError"
                                  ELSE IF call.raised \in {"QueryExecutionError", "SecurityError"}
                                  THEN "QueryExecutionError"
                                  ELSE "UnexpectedError",
                              error |-> call.raised]))

\* MetadataToolBase.format_results(results, operation_type)
format_results(results) ==
    json_dumps([metadata_info |-> [result_count |-> Len(results)], results |-> results])

\* the call named `name` left `handler`
called(name, handler) == [handler EXCEPT !.events = <<EvCall(name)>> \o @]

\* MetadataToolBase.execute_metadata_query(query), whose `async with
\* get_db_connection()` around execute_query left `scope`: the formatted results,
\* or QueryExecutionError for any exception
execute_metadata_query(scope) ==
    IF scope.raised = "" THEN Returned(scope.events, format_results(scope.value))
    ELSE Raised(scope.events, "QueryExecutionError")

\* mysql_show_tables() with its default arguments (SHOW TABLES, no view filter, limit
\* above the number of rows), whose `async with get_db_connection()` around
\* execute_query left `scope`
mysql_show_tables(scope) ==
    IF scope.raised # "" THEN scope
    ELSE Returned(scope.events,
                  json_dumps([metadata_info |-> [result_count |-> Len(scope.value),
                                                 total_count |-> Len(scope.value)],
                              results |-> scope.value]))

\* the tool mysql_query(query): SecurityConfig has no attribute ALLOWED_TABLE_NAMES, so
\* the test of line 45 raises AttributeError before the connection scope is entered
mysql_query(input) ==
    handle_query_error(Raised(<<EvCall("mysql_query")>>, "AttributeError"))
(***************************************************************************)
(* mysql_operations.py: the registry of connection pools.  _pools is a     *)
(* threading.local; the model is of one thread, the one start_server runs  *)
(* in, and of the event loops that thread creates and runs one at a time.  *)
(* A loop object lives at an address, which is its id(); an address is     *)
(* free again once the object at it was deallocated.  Ids are only compared *)
(* for equality, so a new loop object is given either an address no object *)
(* was at before (written as its own number) or the address of a           *)
(* deallocated one.                                                        *)
(***************************************************************************)
\* _cleanup_interval
_cleanup_interval == 300

Loops == 1..MaxLoops

\* the addresses a new loop object l can be allocated at
FreeAddresses(l) ==
    ({l} \cup {loops[k].id : k \in {j \in Loops : loops[j].state = "freed"}})
        \ {loops[k].id : k \in {j \in Loops : loops[j].state = "open"}}

\* the tasks: 0 is init_database, the others each call get_db_connection
Tasks == 0..MaxTasks
Handlers == 1..MaxTasks

\* a loop object that was not created yet
NoLoop == [state |-> "unborn", id |-> 0]

\* a task that is not running
IdleTask == [pc |-> "idle", loop |-> 0, pool |-> 0]

\* no close_all_pools is in progress; returned counts the calls that returned,
\* pools_at_return is the number of pools created when the last one returned
IdleCloser == [pc |-> "idle", todo |-> <<>>, on |-> "", returned |-> 0, pools_at_return |-> 0]

\* no cleanup_resources was called
NoShutdown == [state |-> "none", timeout |-> FALSE]

\* the pool registry and the server before start_server
InitPools ==
    /\ loops = [l \in Loops |-> NoLoop]
    /\ running = 0
    /\ pool_objects = <<>>
    /\ _pools = [has_pools |-> FALSE, pools |-> <<>>]
    /\ tasks = [t \in Tasks |-> IdleTask]
    /\ now = _cleanup_interval
    /\ _last_cleanup = 0
    /\ closer = IdleCloser
    /\ shutdown = NoShutdown
    /\ _server_data = [loop |-> 0, db_initialized |-> FALSE]

\* aiomysql.create_pool(loop=current_loop): the pool keeps its loop; leaked
\* tells that a connection of the pool is held by a task that never runs again
Pool(loop) == [loop |-> loop, closing |-> FALSE, closed |-> FALSE, leaked |-> FALSE]

\* Pool.close(): the pool takes no more acquire; Pool.closed is still False
pool_close(ps, p) == [ps EXCEPT ![p].closing = TRUE]

\* Pool.wait_closed() returned: Pool.closed is True
pool_wait_closed(ps, p) == [ps EXCEPT ![p].closed = TRUE]

\* the connections of the pool that are acquired and not released
InUse(p) == Cardinality({t \in Handlers : tasks[t].pc = "in_use" /\ tasks[t].pool = p})

\* `key in d`, d[key], d[key] = value, `del d[key]` for a dict in insertion order
dict_has(d, key) == \E i \in DOMAIN d : d[i].loop_id = key

dict_get(d, key) == d[CHOOSE i \in DOMAIN d : d[i].loop_id = key].pool

dict_set(d, key, value) ==
    IF dict_has(d, key)
    THEN [i \in DOMAIN d |->
              IF d[i].loop_id = key THEN [loop_id |-> key, pool |-> value] ELSE d[i]]
    ELSE Append(d, [loop_id |-> key, pool |-> value])

dict_del(d, keys) == SelectSeq(d, LAMBDA item : item.loop_id \notin keys)

\* _cleanup_unused_pools at time `time`, where the tasks of asyncio.all_tasks()
\* run on loops with the ids task_loop_ids
_cleanup_unused_pools(time, last_cleanup, registry, ps, task_loop_ids) ==
    IF time - last_cleanup < _cleanup_interval
    THEN [_last_cleanup |-> last_cleanup, _pools |-> registry, pool_objects |-> ps]
    ELSE IF ~registry.has_pools
    THEN [_last_cleanup |-> time, _pools |-> registry, pool_objects |-> ps]
    ELSE LET items == registry.pools
             closed_ids == {items[i].loop_id : i \in {j \in DOMAIN items : ps[items[j].pool].closed}}
             unused == {i \in DOMAIN items :
                           /\ ~ps[items[i].pool].closed
                           /\ items[i].loop_id \notin task_loop_ids}
             to_remove == closed_ids \cup {items[i].loop_id : i \in unused}
         IN  [_last_cleanup |-> time,
              _pools |-> [has_pools |-> TRUE, pools |-> dict_del(items, to_remove)],
              pool_objects |->
                  [p \in DOMAIN ps |->
                      IF \E i \in unused : items[i].pool = p
                      THEN [ps[p] EXCEPT !.closing = TRUE] ELSE ps[p]]]

\* get_pool_for_current_loop, after its _cleanup_unused_pools: the pool
\* registered under the id of the current loop, 0 (None) when there is none or
\* it is closed
get_pool_for_current_loop(registry, ps, loop_id) ==
    IF registry.has_pools /\ dict_has(registry.pools, loop_id)
    THEN LET pool == dict_get(registry.pools, loop_id)
         IN  IF ps[pool].closed THEN 0 ELSE pool
    ELSE 0

\* a pool that does not keep the loop it was created for
Referenced_not_by_pools(loop) ==
    \/ loop = _server_data.loop
    \/ loop = running

\* something holds a reference to the loop object: _server_data['loop'], the
\* thread running it with its tasks, or a pool created for it: the pool keeps the
\* loop it was created with, and the _finalizer given to weakref.finalize keeps
\* the pool (its default argument p=pool) for as long as the loop is alive
Referenced(loop) ==
    \/ loop = _server_data.loop
    \/ loop = running
    \/ \E p \in DOMAIN pool_objects : pool_objects[p].loop = loop

\* start_server: the thread's loop is _server_data['loop'] and it runs
\* init_database(), which awaits init_db_pool()
StartServer ==
    /\ \A l \in Loops : loops[l].state = "unborn"
    /\ loops' = [loops EXCEPT ![1] = [state |-> "open", id |-> 1]]
    /\ running' = 1
    /\ _server_data' = [_server_data EXCEPT !.loop = 1]
    /\ tasks' = [tasks EXCEPT ![0] = [IdleTask EXCEPT !.pc = "create_pool", !.loop = 1]]
    /\ UNCHANGED <<pool_objects, _pools, now, _last_cleanup, closer, shutdown, gatevars>>

\* the thread creates another event loop and runs it (mcp.run)
NewLoop ==
    /\ running = 0
    /\ closer.pc = "idle"
    /\ \E l \in Loops \ {1} :
        /\ loops[l].state = "unborn"
        /\ loops[l - 1].state # "unborn"
        /\ \E a \in FreeAddresses(l) :
               loops' = [loops EXCEPT ![l] = [state |-> "open", id |-> a]]
        /\ running' = l
    /\ UNCHANGED <<pool_objects, _pools, tasks, now, _last_cleanup, closer, shutdown,
                   _server_data, gatevars>>

\* the running loop stops; run_until_complete(init_database()) returns when
\* init_database is done.  The tasks left on the loop never run again: a
\* connection one of them holds is never released.
StopLoop ==
    /\ running # 0
    /\ tasks[0].pc = "idle"
    /\ running' = 0
    /\ tasks' = [t \in Tasks |-> IdleTask]
    /\ pool_objects' =
           [p \in DOMAIN pool_objects |->
               IF InUse(p) > 0 THEN [pool_objects[p] EXCEPT !.leaked = TRUE]
               ELSE pool_objects[p]]
    /\ UNCHANGED <<loops, _pools, now, _last_cleanup, closer, shutdown, _server_data,
                   gatevars>>

\* a loop object nothing refers to is deallocated; weakref.finalize calls the
\* _finalizer of each pool registered for it: p.close() unless p.closed
FreeLoop ==
    \E l \in Loops :
        /\ loops[l].state = "open"
        /\ ~Referenced(l)
        /\ loops' = [loops EXCEPT ![l].state = "freed"]
        /\ pool_objects' =
               [p \in DOMAIN pool_objects |->
                   IF pool_objects[p].loop = l /\ ~pool_objects[p].closed
                   THEN [pool_objects[p] EXCEPT !.closing = TRUE] ELSE pool_objects[p]]
        /\ UNCHANGED <<running, _pools, tasks, now, _last_cleanup, closer, shutdown,
                       _server_data, gatevars>>

\* _cleanup_interval seconds pass.  The clock is read only to compare it with
\* _last_cleanup: it is advanced when the next sweep is not due yet.
Tick ==
    /\ now < _cleanup_interval * (MaxTicks + 1)
    /\ now - _last_cleanup < _cleanup_interval
    /\ now' = now + _cleanup_interval
    /\ UNCHANGED <<loops, running, pool_objects, _pools, tasks, _last_cleanup, closer,
                   shutdown, _server_data, gatevars>>

\* the requests in flight, oldest first: tasks 1, 2, ... are the tasks of the
\* loop that serve a request, in the order they started; `ended` has ended
in_flight(ts, ended) ==
    LET busy == SelectSeq([i \in 1..MaxTasks |-> IF i = ended THEN IdleTask ELSE ts[i]],
                          LAMBDA task : task.pc # "idle")
    IN  [t \in Tasks |->
            IF t = 0 THEN IF ended = 0 THEN IdleTask ELSE ts[0]
            ELSE IF t <= Len(busy) THEN busy[t] ELSE IdleTask]

\* get_db_connection, up to its first suspension: get_pool_for_current_loop (with
\* its sweep), then either `await init_db_pool()` or pool.acquire(); acquire
\* raises on a pool that is closing.  Requests are served once init_database is
\* done (mcp.run comes after it), on the loop that is running: which loop
\* mcp.run uses, the one of start_server or one of its own, is the library's
\* choice.  A request is run by the first task that is free.
GetDbConnection(t) ==
    /\ t \in Handlers
    /\ tasks[t].pc = "idle"
    /\ \A u \in 1..(t - 1) : tasks[u].pc # "idle"
    /\ tasks[0].pc = "idle"
    /\ running # 0
    /\ LET loop_id == loops[running].id
           swept == _cleanup_unused_pools(now, _last_cleanup, _pools, pool_objects, {loop_id})
           pool == get_pool_for_current_loop(swept._pools, swept.pool_objects, loop_id)
       IN  /\ _last_cleanup' = swept._last_cleanup
           /\ _pools' = swept._pools
           /\ pool_objects' = swept.pool_objects
           /\ tasks' = [tasks EXCEPT ![t] =
                  [pc |-> IF pool = 0 THEN "create_pool"
                          ELSE IF swept.pool_objects[pool].closing THEN "error"
                          ELSE "in_use",
                   loop |-> running, pool |-> pool]]
    /\ UNCHANGED <<loops, running, now, closer, shutdown, _server_data, gatevars>>

\* init_db_pool after `await aiomysql.create_pool(...)` returned: the pool is
\* stored under the id of the loop and the finalizer is registered; init_database
\* then sets db_initialized, get_db_connection acquires a connection
InitDbPoolReturns(t) ==
    /\ tasks[t].pc = "create_pool"
    /\ tasks[t].loop = running
    /\ Len(pool_objects) < MaxPools
    /\ LET pool == Len(pool_objects) + 1
           loop_id == loops[running].id
       IN  /\ pool_objects' = Append(pool_objects, Pool(running))
           /\ _pools' = [has_pools |-> TRUE,
                         pools |-> dict_set(_pools.pools, loop_id, pool)]
           /\ tasks' = [tasks EXCEPT ![t] =
                  IF t = 0 THEN IdleTask
                  ELSE [tasks[t] EXCEPT !.pc = "in_use", !.pool = pool]]
    /\ _server_data' = IF t = 0 THEN [_server_data EXCEPT !.db_initialized = TRUE]
                       ELSE _server_data
    /\ UNCHANGED <<loops, running, now, _last_cleanup, closer, shutdown, gatevars>>

\* aiomysql.create_pool raised: init_db_pool raises a MySQLConnectionError;
\* init_database logs it, get_db_connection lets it reach its caller
InitDbPoolRaises(t) ==
    /\ tasks[t].pc = "create_pool"
    /\ tasks[t].loop = running
    /\ tasks' = in_flight(tasks, t)
    /\ UNCHANGED <<loops, running, pool_objects, _pools, now, _last_cleanup, closer,
                   shutdown, _server_data, gatevars>>

\* the caller of get_db_connection leaves the `async with`: the connection
\* goes back to its pool
Release(t) ==
    /\ tasks[t].pc = "in_use"
    /\ tasks[t].loop = running
    /\ tasks' = in_flight(tasks, t)
    /\ UNCHANGED <<loops, running, pool_objects, _pools, now, _last_cleanup, closer,
                   shutdown, _server_data, gatevars>>

\* pool.acquire() raised: get_db_connection raises MySQLConnectionError
RaiseToCaller(t) ==
    /\ tasks[t].pc = "error"
    /\ tasks[t].loop = running
    /\ tasks' = in_flight(tasks, t)
    /\ UNCHANGED <<loops, running, pool_objects, _pools, now, _last_cleanup, closer,
                   shutdown, _server_data, gatevars>>

RECURSIVE skip_closed(_, _)
\* the items of the snapshot from the first one whose pool is `not pool.closed`
skip_closed(todo, ps) ==
    IF todo = <<>> THEN <<>>
    ELSE IF ps[todo[1].pool].closed THEN skip_closed(Tail(todo), ps)
    ELSE todo

\* a close_all_pools that leaves the dict as it is
registry_kept(registry) == registry

\* `_pools.pools = {}`, when _pools has the attribute
registry_reset(registry) ==
    IF registry.has_pools THEN [has_pools |-> TRUE, pools |-> <<>>] ELSE registry

\* close_all_pools goes on over the items `rest` of its snapshot until it awaits
\* pool.wait_closed() or returns
close_all_pools(rest, on, ps, registry, calls, waiting) ==
    IF rest = <<>>
    THEN [closer |-> [pc |-> "idle", todo |-> <<>>, on |-> "",
                      returned |-> calls.returned + 1, pools_at_return |-> Len(ps)],
          pool_objects |-> ps,
          _pools |-> registry_reset(registry),
          shutdown |-> IF waiting.state = "waiting"
                       THEN [state |-> "done", timeout |-> FALSE] ELSE waiting]
    ELSE [closer |-> [pc |-> "wait_closed", todo |-> rest, on |-> on,
                      returned |-> calls.returned, pools_at_return |-> calls.pools_at_return],
          pool_objects |-> pool_close(ps, rest[1].pool),
          _pools |-> registry,
          shutdown |-> waiting]

\* the state after a step of close_all_pools
CloseAllPoolsStep(step) ==
    /\ closer' = step.closer
    /\ pool_objects' = step.pool_objects
    /\ _pools' = step._pools
    /\ shutdown' = step.shutdown

\* cleanup_resources (atexit, signal handler, the finally of start_server)
CleanupResources ==
    /\ closer.pc = "idle"
    /\ shutdown.state # "waiting"
    /\ closer.returned < MaxCloseAllCalls
    /\ IF ~(_server_data.loop # 0 /\ _server_data.db_initialized)
       THEN \* nothing to clean up
            /\ shutdown' = [state |-> "done", timeout |-> FALSE]
            /\ UNCHANGED <<closer, pool_objects, _pools>>
       ELSE IF running = _server_data.loop
       THEN \* run_coroutine_threadsafe(close_task, loop); future.result(timeout=5)
            CloseAllPoolsStep(
                close_all_pools(skip_closed(_pools.pools, pool_objects), "loop",
                                pool_objects, _pools, closer,
                                [state |-> "waiting", timeout |-> TRUE]))
       ELSE IF running = 0
       THEN \* temp_loop.run_until_complete(close_task)
            CloseAllPoolsStep(
                close_all_pools(skip_closed(_pools.pools, pool_objects), "temp_loop",
                                pool_objects, _pools, closer,
                                [state |-> "waiting", timeout |-> FALSE]))
       ELSE \* run_until_complete raises RuntimeError: another loop is running
            /\ shutdown' = [state |-> "done", timeout |-> FALSE]
            /\ UNCHANGED <<closer, pool_objects, _pools>>
    /\ UNCHANGED <<loops, running, tasks, now, _last_cleanup, _server_data, gatevars>>

\* `await pool.wait_closed()` returns, once every connection of the pool was
\* released, and close_all_pools goes on
CloseAllPoolsResumes ==
    /\ closer.pc = "wait_closed"
    /\ closer.on = "temp_loop" \/ running = _server_data.loop
    /\ InUse(closer.todo[1].pool) = 0
    /\ ~pool_objects[closer.todo[1].pool].leaked
    /\ LET ps == pool_wait_closed(pool_objects, closer.todo[1].pool)
       IN  CloseAllPoolsStep(
               close_all_pools(skip_closed(Tail(closer.todo), ps), closer.on, ps, _pools,
                               closer, shutdown))
    /\ UNCHANGED <<loops, running, tasks, now, _last_cleanup, _server_data, gatevars>>

\* future.result(timeout=5) raises TimeoutError: cleanup_resources logs it and
\* returns; the coroutine stays scheduled on the loop
ShutdownTimeout ==
    /\ shutdown.state = "waiting"
    /\ shutdown.timeout
    /\ shutdown' = [state |-> "done", timeout |-> FALSE]
    /\ UNCHANGED <<loops, running, pool_objects, _pools, tasks, now, _last_cleanup, closer,
                   _server_data, gatevars>>

(***************************************************************************)
(* The process: the gate called on one text at a time, and the execution   *)
(* engine called on a connection its caller acquired.                      *)
(***************************************************************************)
\* check_operation was not called
NotChecked == [ok |-> FALSE, reason |-> "not_checked", risk_analysis |-> NoAnalysis]

\* no call of the engine is in progress
NoOutcome == [raised |-> "", value |-> "none"]

\* the texts handed to execute_query
QueryInputs ==
    {Input(<<s>>, StmtText(s)) :
        s \in {st_select, st_select_limit, st_insert, st_update_where, st_delete, st_drop,
               st_show, st_desc}}
        \cup {Input(<<>>, <<>>),
              Input(<<st_select_where, st_delete>>, BatchText(<<st_select_where, st_delete>>))}

\* the texts handed to execute_transaction_queries
TransactionInputs ==
    {Input(<<s>>, StmtText(s)) : s \in {st_select_limit, st_insert, st_update_where, st_delete}}

\* the lists of 1..MaxQueries queries
QueryLists == UNION {[1..n -> TransactionInputs] : n \in 1..MaxQueries}

\* what the server and the driver may do during one call
Drivers ==
    {Driver("none", 0, rollback_fails, nrows) :
        rollback_fails \in BOOLEAN, nrows \in 0..MaxRows}
        \cup {Driver(fail_op, fail_at, rollback_fails, 1) :
                fail_op \in {"execute", "commit", "fetch"}, fail_at \in 1..MaxQueries,
                rollback_fails \in BOOLEAN}
        \cup {Driver(fail_op, 0, rollback_fails, 1) :
                fail_op \in {"begin", "transaction_commit"}, rollback_fails \in BOOLEAN}

TypeOK ==
    /\ environ \in Environments
    /\ sql_analyzer = SQLOperationType(environ)
    /\ Input(request, sql_text) \in Inputs
    /\ risk_analysis.made \in BOOLEAN
    /\ admission.ok \in BOOLEAN
    /\ \A i \in DOMAIN events :
           events[i].ev \in {"check_operation", "cursor", "execute", "commit", "rollback",
                             "begin", "fetchall", "fetchmany", "fetchone", "cursor_close",
                             "parse_query", "call", "init_db_pool", "create_pool",
                             "register_pool", "acquire", "release"}
    /\ outcome.raised \in {"", "SecurityException", "ValueError", "aiomysql.Error",
                           "MySQLConnectionError", "MySQLAuthError",
                           "MySQLDatabaseNotFoundError", "MySQLServerError",
                           "MySQLAuthPluginError"}

\* the process starts: the environment is read and the analyzer is built (module import)
Init ==
    /\ environ \in Environments
    /\ sql_analyzer = SQLOperationType(environ)
    /\ request = <<>>
    /\ sql_text = <<>>
    /\ risk_analysis = NoAnalysis
    /\ admission = NotChecked
    /\ events = <<>>
    /\ outcome = NoOutcome
    /\ InitPools

\* no call is in progress
Idle == ~risk_analysis.made /\ admission = NotChecked /\ events = <<>> /\ outcome = NoOutcome

\* sql_analyzer.analyze_risk(text)
AnalyzeRisk ==
    /\ Idle
    /\ \E input \in Inputs :
        /\ request' = input.stmts
        /\ sql_text' = input.text
        /\ risk_analysis' = [made |-> TRUE, result |-> analyze_risk(sql_analyzer, input.text)]
        /\ admission' = NotChecked
        /\ UNCHANGED <<environ, sql_analyzer, events, outcome, poolvars>>

\* sql_interceptor.check_operation(text)
CheckOperation ==
    /\ Idle
    /\ \E input \in Inputs :
        /\ request' = input.stmts
        /\ sql_text' = input.text
        /\ admission' = check_operation(sql_analyzer, input.text)
        /\ risk_analysis' = admission'.risk_analysis
        /\ UNCHANGED <<environ, sql_analyzer, events, outcome, poolvars>>

\* the call in progress left `call`
Leaves(call) ==
    /\ events' = call.events
    /\ outcome' = [raised |-> call.raised, value |-> call.value]
    /\ UNCHANGED <<environ, sql_analyzer, request, sql_text, risk_analysis, admission, poolvars>>

\* execute_query(connection, query, batch_size=..., stream_results=...)
ExecuteQuery ==
    /\ Idle
    /\ \E input \in QueryInputs, driver \in Drivers,
          batch_size \in 1..MaxBatchSize, stream_results \in BOOLEAN :
        /\ driver.fail_at \in {0, 1}
        /\ driver.fail_op \notin {"begin", "transaction_commit"}
        /\ Leaves(execute_query(sql_analyzer, input, batch_size, stream_results, driver, 1))

\* execute_transaction_queries(connection, queries)
ExecuteTransactionQueries ==
    /\ Idle
    /\ \E queries \in QueryLists, driver \in Drivers :
        /\ driver.fail_at <= Len(queries)
        /\ Leaves(execute_transaction_queries(sql_analyzer, queries, driver))

\* get_current_database()
GetCurrentDatabase ==
    /\ Idle
    /\ \E driver \in Drivers :
        /\ driver.fail_at \in {0, 1}
        /\ driver.fail_op \in {"none", "execute", "fetch"}
        /\ Leaves(get_current_database(driver))

\* init_db_pool(require_database=...)
InitDbPool ==
    /\ Idle
    /\ \E require_database \in BOOLEAN, db_set \in BOOLEAN, create_pool \in Failures :
        Leaves(init_db_pool(require_database, db_set, create_pool))

\* what a tool call finds when it asks for the pool of its loop: the pool, or none
\* and what init_db_pool(require_database=True) then leaves
PoolLookups ==
    {PoolFound} \cup {init_db_pool(TRUE, db_set, create_pool) :
                        db_set \in BOOLEAN, create_pool \in Failures}

\* how a tool call meets its connection: the pool lookup and what pool.acquire() does
ConnectionCases ==
    {<<pool, NoFailure>> : pool \in PoolLookups} \cup {<<PoolFound, acquire>> : acquire \in Failures}

\* what the server and the driver may do during one statement of a tool
ToolDrivers ==
    {driver \in Drivers : driver.fail_at \in {0, 1} /\ driver.fail_op \in {"none", "execute", "fetch"}}

\* a client calls the tool mysql_query
MysqlQuery ==
    /\ Idle
    /\ \E input \in QueryInputs : Leaves(mysql_query(input))

\* a client calls the tool mysql_show_tables: execute_query inside `async with
\* get_db_connection()`, the rest of the handler, and the wrapper handle_query_error
MysqlShowTables ==
    /\ Idle
    /\ \E input \in {Input(<<st_show>>, StmtText(st_show))}, driver \in ToolDrivers,
          case \in ConnectionCases :
        \E body \in {execute_query(sql_analyzer, input, 1000, FALSE, driver, 1)} :
            \E scope \in {get_db_connection(case[1], case[2], body)} :
                \E handler \in {mysql_show_tables(scope)} :
                    \E call \in {handle_query_error(called("mysql_show_tables", handler))} :
                        Leaves(call)

\* a client calls the tool mysql_describe_table, which calls execute_metadata_query
MysqlDescribeTable ==
    /\ Idle
    /\ \E input \in {Input(<<st_describe>>, StmtText(st_describe))}, driver \in ToolDrivers,
          case \in ConnectionCases :
        \E body \in {execute_query(sql_analyzer, input, 1000, FALSE, driver, 1)} :
            \E scope \in {get_db_connection(case[1], case[2], body)} :
                \E handler \in {execute_metadata_query(scope)} :
                    \E call \in {handle_query_error(called("mysql_describe_table", handler))} :
                        Leaves(call)

\* the caller has its answer; nothing of the call is kept
Return ==
    /\ ~Idle
    /\ request' = <<>>
    /\ sql_text' = <<>>
    /\ risk_analysis' = NoAnalysis
    /\ admission' = NotChecked
    /\ events' = <<>>
    /\ outcome' = NoOutcome
    /\ UNCHANGED <<environ, sql_analyzer, poolvars>>

\* the gate alone
NextGate == AnalyzeRisk \/ CheckOperation \/ Return

SpecGate == Init /\ [][NextGate]_vars

\* the execution engine
Next == ExecuteQuery \/ ExecuteTransactionQueries \/ GetCurrentDatabase \/ Return

Spec == Init /\ [][Next]_vars

\* the tools and the pool creation they fall back on
NextTools == InitDbPool \/ MysqlQuery \/ MysqlShowTables \/ MysqlDescribeTable \/ Return

SpecTools == Init /\ [][NextTools]_vars

\* the environment of the pool registry: the default policy
InitPool ==
    /\ Init
    /\ \A name \in DOMAIN environ : ~environ[name].set

NextPool ==
    \/ StartServer
    \/ NewLoop
    \/ StopLoop
    \/ FreeLoop
    \/ Tick
    \/ \E t \in Tasks : GetDbConnection(t)
    \/ \E t \in Tasks : InitDbPoolReturns(t)
    \/ \E t \in Tasks : InitDbPoolRaises(t)
    \/ \E t \in Tasks : Release(t)
    \/ \E t \in Tasks : RaiseToCaller(t)
    \/ CleanupResources
    \/ CloseAllPoolsResumes
    \/ ShutdownTimeout

\* the pool registry and the server's life cycle
SpecPool == InitPool /\ [][NextPool]_vars

\* the same, with what the event loop, the clock and the network guarantee: a
\* task that can go on is run, a pending create_pool ends, time passes, and the
\* timeout of future.result expires.  New requests, new loops and calls of
\* cleanup_resources are not guaranteed to come.
SpecPoolFair ==
    /\ SpecPool
    /\ WF_vars(Tick)
    /\ WF_vars(\E t \in Tasks : InitDbPoolReturns(t) \/ InitDbPoolRaises(t))
    /\ WF_vars(\E t \in Tasks : Release(t))
    /\ WF_vars(\E t \in Tasks : RaiseToCaller(t))
    /\ WF_vars(CloseAllPoolsResumes)
    /\ WF_vars(ShutdownTimeout)

(***************************************************************************)
(* SQLParser.parse_query called on its own: the texts are batches of       *)
(* statements of every category, in every order.                           *)
(***************************************************************************)
\* the statements the batches handed to parse_query are written from
ParserStatements ==
    {st_select, st_insert, st_update, st_delete, st_merge,
     st_drop, st_truncate, st_create, st_alter, st_rename,
     st_show, st_desc, st_explain}

\* the texts handed to parse_query: the lists of 1..MaxStmts statements, the
\* empty text and a blank text
ParserInputs ==
    {Input(b, BatchText(b)) : b \in UNION {[1..n -> ParserStatements] : n \in 1..MaxStmts}}
        \cup {Input(<<>>, <<>>), Input(<<>>, <<" ", " ">>)}

\* SQLParser.parse_query(text)
ParseQuery ==
    /\ Idle
    /\ \E input \in ParserInputs :
        /\ request' = input.stmts
        /\ sql_text' = input.text
        /\ events' = <<EvParse(input.text)>>
        /\ outcome' = [raised |-> "", value |-> parse_query(input)]
        /\ UNCHANGED <<environ, sql_analyzer, risk_analysis, admission, poolvars>>

NextParser == ParseQuery \/ Return

\* the parser alone, under the default policy
SpecParser == InitPool /\ [][NextParser]_vars
(***************************************************************************)
(* What the gate answered, and what the text was written from.             *)
(***************************************************************************)
\* analyze_risk was called on the text
Analysed == risk_analysis.made

\* check_operation was called on the text
Checked == admission.reason # "not_checked"

\* the text is one statement, several statements
IsSingle == Len(request) = 1
IsMulti == Len(request) > 1

\* a blocked pattern matches the text
BlockedPatternMatches ==
    \E pattern \in sql_analyzer.blocked_patterns :
        re_search_ignorecase(pattern, upper(strip(sql_text)))

\* the category of an operation under the three fixed operation sets
CategoryOf(operation) ==
    IF operation \in DDL_OPERATIONS THEN "DDL"
    ELSE IF operation \in DML_OPERATIONS THEN "DML"
    ELSE IF operation \in METADATA_OPERATIONS THEN "METADATA"
    ELSE "UNKNOWN"

\* some statement of the text is DDL, or DML other than SELECT
HasMutatingMember ==
    \E k \in DOMAIN request :
        \/ CategoryOf(StmtOp(request[k])) = "DDL"
        \/ CategoryOf(StmtOp(request[k])) = "DML" /\ StmtOp(request[k]) # w_SELECT

\* the i-th event of the call hands a text to the driver
IsExecute(i) == events[i].ev = "execute"

\* some earlier event of the same call is a check_operation of that text that passed
AdmittedBefore(i) ==
    \E j \in 1..(i - 1) :
        /\ events[j].ev = "check_operation"
        /\ events[j].sql = events[i].sql
        /\ events[j].ok

\* some earlier event of the same call is a check_operation of that text that denied it
DeniedBefore(i) ==
    \E j \in 1..(i - 1) :
        /\ events[j].ev = "check_operation"
        /\ events[j].sql = events[i].sql
        /\ ~events[j].ok

\* C1: every text handed to the driver's cursor.execute was, earlier in the same
\* call, passed by check_operation; no path (execute_query, the transaction
\* helper, get_current_database) reaches the driver without it, and a denied
\* text is never executed.
C1_ExecutedOnlyAfterAdmission ==
    \A i \in DOMAIN events : IsExecute(i) => (AdmittedBefore(i) /\ ~DeniedBefore(i))

\* C2: a batch that contains a DROP statement at any position is assessed as
\* operation DROP with risk level CRITICAL, and is denied under the default
\* policy (allowed levels LOW and MEDIUM).
C2_DropInBatchIsCriticalAndDenied ==
    (IsMulti /\ \E k \in DOMAIN request : StmtOp(request[k]) = w_DROP) =>
        /\ Analysed => /\ risk_analysis.result.operation = w_DROP
                       /\ risk_analysis.result.risk_level = CRITICAL
        /\ (Checked /\ sql_analyzer.allowed_risk_levels = {LOW, MEDIUM}) => ~admission.ok

\* C3: in PRODUCTION every multi-statement batch is dangerous, has risk level
\* CRITICAL and is denied, also when its first statement is a SELECT.
C3_ProductionBatchIsDangerousAndDenied ==
    (IsMulti /\ sql_analyzer.env_type = PRODUCTION) =>
        /\ Analysed => /\ risk_analysis.result.is_dangerous
                       /\ risk_analysis.result.risk_level = CRITICAL
        /\ Checked => ~admission.ok

\* C4: in DEVELOPMENT a multi-statement batch that matches no blocked pattern is
\* never LOW: at least HIGH when a member is DDL or DML other than SELECT, at
\* least MEDIUM otherwise.
C4_DevelopmentBatchIsNeverLow ==
    (IsMulti /\ sql_analyzer.env_type = DEVELOPMENT /\ ~BlockedPatternMatches /\ Analysed) =>
        risk_analysis.result.risk_level >= (IF HasMutatingMember THEN HIGH ELSE MEDIUM)

\* C5: an UPDATE or DELETE statement without a WHERE clause (the letters WHERE
\* inside a literal, an identifier, a comment or another statement are no clause)
\* has risk level at least HIGH in every environment; in DEVELOPMENT with no
\* blocked pattern matching, exactly CRITICAL for DELETE and HIGH for UPDATE.
C5_NoWhereClauseIsHighOrCritical ==
    (/\ Analysed
     /\ request # <<>>
     /\ StmtOp(request[1]) \in {w_UPDATE, w_DELETE}
     /\ ~request[1].where_clause) =>
        /\ risk_analysis.result.risk_level >= HIGH
        /\ (sql_analyzer.env_type = DEVELOPMENT /\ ~BlockedPatternMatches) =>
               risk_analysis.result.risk_level =
                   (IF StmtOp(request[1]) = w_DELETE THEN CRITICAL ELSE HIGH)

\* the analyzers that differ from the configured one in ALLOWED_RISK_LEVELS only
AnalyzersWithOtherAllowedLevels ==
    {SQLOperationType([environ EXCEPT !.ALLOWED_RISK_LEVELS = value]) : value \in AllowedValues}

\* analyze_risk was called on the text by itself, not through check_operation
AnalysedAlone == risk_analysis.made /\ admission = NotChecked

\* the risk level of the text does not depend on the allowed levels
RiskLevelIgnoresAllowedLevels ==
    \A other \in AnalyzersWithOtherAllowedLevels :
        analyze_risk(other, sql_text).risk_level = risk_analysis.result.risk_level

\* C6 as claimed: for every statement, the empty one included, is_allowed is
\* (risk level in allowed levels), and the allowed levels do not change the risk level.
C6_AllowedIffLevelAllowed_AsClaimed ==
    AnalysedAlone =>
        /\ risk_analysis.result.is_allowed =
               (risk_analysis.result.risk_level \in sql_analyzer.allowed_risk_levels)
        /\ RiskLevelIgnoresAllowedLevels

\* C6: for every statement that is not empty after trimming, is_allowed is (risk
\* level in allowed levels); the empty statement has level HIGH and is never
\* allowed; in both cases the allowed levels do not change the risk level.
C6_AllowedIffLevelAllowed ==
    AnalysedAlone =>
        /\ IF strip(sql_text) = <<>>
           THEN /\ risk_analysis.result.risk_level = HIGH
                /\ ~risk_analysis.result.is_allowed
           ELSE risk_analysis.result.is_allowed =
                    (risk_analysis.result.risk_level \in sql_analyzer.allowed_risk_levels)
        /\ RiskLevelIgnoresAllowedLevels

\* an analysed statement whose level is allowed, under a policy that also has a
\* level that is not allowed
C6_Witness ==
    /\ AnalysedAlone
    /\ strip(sql_text) # <<>>
    /\ risk_analysis.result.is_allowed
    /\ risk_analysis.result.risk_level = MEDIUM
    /\ sql_analyzer.allowed_risk_levels # SQLRiskLevel

\* the text is the single statement DROP or TRUNCATE
IsSingleDropOrTruncate == IsSingle /\ StmtOp(request[1]) \in {w_DROP, w_TRUNCATE}

C8_ProductionMetadataIsLowAndAdmitted ==
    (/\ IsSingle
     /\ StmtOp(request[1]) \in METADATA_OPERATIONS
     /\ sql_analyzer.env_type = PRODUCTION
     /\ ~BlockedPatternMatches) =>
        /\ Analysed => /\ ~risk_analysis.result.is_dangerous
                       /\ risk_analysis.result.risk_level = LOW
        /\ (Checked /\ sql_analyzer.allowed_risk_levels = {LOW}) => admission.ok

\* C9: a single SELECT that matches no blocked pattern has risk level LOW, except
\* MEDIUM in PRODUCTION without a LIMIT clause; under the production allowed set
\* {LOW} it is admitted exactly when it has a LIMIT clause.
C9_SelectIsLowUnlessUnlimitedInProduction ==
    (IsSingle /\ StmtOp(request[1]) = w_SELECT /\ ~BlockedPatternMatches) =>
        /\ Analysed =>
               risk_analysis.result.risk_level =
                   (IF sql_analyzer.env_type = PRODUCTION /\ ~request[1].limit_clause
                    THEN MEDIUM ELSE LOW)
        /\ (Checked /\ sql_analyzer.env_type = PRODUCTION
                /\ sql_analyzer.allowed_risk_levels = {LOW}) =>
               (admission.ok <=> request[1].limit_clause)

\* C10: in PRODUCTION with ALLOWED_RISK_LEVELS not supplied, the analyzer's
\* allowed levels are exactly {LOW}; an INSERT is denied and a SELECT with a LIMIT
\* clause (no blocked pattern matching) is admitted.
C10_ProductionDefaultAllowsOnlyLow ==
    (sql_analyzer.env_type = PRODUCTION /\ ~environ.ALLOWED_RISK_LEVELS.set) =>
        /\ sql_analyzer.allowed_risk_levels = {LOW}
        /\ (Checked /\ IsSingle /\ StmtOp(request[1]) = w_INSERT) => ~admission.ok
        /\ (/\ Checked
            /\ IsSingle
            /\ StmtOp(request[1]) = w_SELECT
            /\ request[1].limit_clause
            /\ ~BlockedPatternMatches) => admission.ok

\* a SELECT with a LIMIT clause admitted in PRODUCTION with nothing configured
C10_Witness ==
    /\ sql_analyzer.env_type = PRODUCTION
    /\ ~environ.ALLOWED_RISK_LEVELS.set
    /\ Checked
    /\ IsSingle
    /\ StmtOp(request[1]) = w_SELECT
    /\ request[1].limit_clause
    /\ admission.ok

(***************************************************************************)
(* The order of the interceptor's checks, and its length limit.            *)
(***************************************************************************)
\* the operation check_operation reads off the text: its first word, in upper case
FirstWordOperation == upper(split(strip(sql_text))[1])

\* the denial of the first check that fails, "" when all six pass, with the
\* fourth check made against the three operation sets of SQLConfig
FirstFailingCheck ==
    IF strip(sql_text) = <<>> THEN "empty"
    ELSE IF Len(sql_text) > max_sql_length THEN "too_long"
    ELSE IF ~parse_query(Input(request, sql_text)).is_valid THEN "invalid_format"
    ELSE IF FirstWordOperation
                \notin (DDL_OPERATIONS \cup DML_OPERATIONS \cup METADATA_OPERATIONS)
    THEN "unsupported_operation"
    ELSE IF analyze_risk(sql_analyzer, sql_text).is_dangerous THEN "dangerous_operation"
    ELSE IF ~analyze_risk(sql_analyzer, sql_text).is_allowed THEN "risk_level_not_allowed"
    ELSE ""

\* C11: check_operation makes six checks in the order non-empty, length,
\* classifier validity, operation in the union of the DDL, DML and METADATA
\* operation sets, not dangerous, risk level allowed; it passes the text exactly
\* when all six pass, and otherwise the denial is that of the first failing check.
C11_DenialIsFirstFailingCheck ==
    Checked => /\ admission.reason = FirstFailingCheck
               /\ admission.ok <=> FirstFailingCheck = ""

\* C12: the length check uses the configured MAX_SQL_LENGTH: a text is denied for
\* its length exactly when it is longer than the configured value.
C12_LengthLimitIsConfigured ==
    (Checked /\ strip(sql_text) # <<>>) =>
        (admission.reason = "too_long" <=> Len(sql_text) > MAX_SQL_LENGTH(environ))

(***************************************************************************)
(* What a call of the engine did on its connection.                        *)
(***************************************************************************)
\* the call in progress is one execute_query, made outside transaction()
IsExecuteQueryCall == events # <<>> /\ events[1].ev = "check_operation"

\* the text of that call was admitted and its first word is INSERT, UPDATE or DELETE
AdmittedMutation ==
    /\ IsExecuteQueryCall
    /\ events[1].ok
    /\ upper(split(strip(events[1].sql))[1]) \in {w_INSERT, w_UPDATE, w_DELETE}

\* the i-th event is a cursor.execute or a connection.commit that raised
IsDriverError(i) == events[i].ev \in {"execute", "commit"} /\ ~events[i].ok

\* a later event of the call is a connection.rollback
RollbackAfter(i) == \E j \in (i + 1)..Len(events) : events[j].ev = "rollback"

\* C13: when execute_query of an admitted INSERT, UPDATE or DELETE fails with a
\* driver error, raised by cursor.execute or by connection.commit, a rollback is
\* attempted before the error is raised to the caller.
C13_RollbackBeforeDriverErrorIsRaised ==
    (AdmittedMutation /\ outcome.raised # "") =>
        \A i \in DOMAIN events : IsDriverError(i) => RollbackAfter(i)

\* the call in progress is one execute_transaction_queries
IsTransactionCall == events # <<>> /\ events[1].ev = "begin"

\* the i-th event is an INSERT, UPDATE or DELETE the server executed
IsExecutedMutation(i) ==
    /\ events[i].ev = "execute"
    /\ events[i].ok
    /\ upper(split(strip(events[i].sql))[1]) \in {w_INSERT, w_UPDATE, w_DELETE}

\* the effect of the i-th event is durable: a later commit succeeded, with no
\* rollback between the two
IsDurable(i) ==
    \E j \in (i + 1)..Len(events) :
        /\ events[j].ev = "commit"
        /\ events[j].ok
        /\ \A k \in (i + 1)..(j - 1) : events[k].ev # "rollback"

\* C14: execute_transaction_queries is atomic: either it returns and the effects
\* of all its statements are committed, or it raises, the effect of none of its
\* statements is durably committed, and no results are returned.
C14_TransactionIsAtomic ==
    IsTransactionCall =>
        IF outcome.raised = ""
        THEN \A i \in DOMAIN events : IsExecutedMutation(i) => IsDurable(i)
        ELSE /\ \A i \in DOMAIN events : IsExecutedMutation(i) => ~IsDurable(i)
             /\ outcome.value = <<>>

(***************************************************************************)
(* The pool registry.                                                      *)
(***************************************************************************)
\* the pool was created and close() was not called on it
IsLive(p) == ~pool_objects[p].closing /\ ~pool_objects[p].closed

\* the pool is in the registry
IsRegistered(p) == \E i \in DOMAIN _pools.pools : _pools.pools[i].pool = p

\* C15: at most one live (created and not closed) pool exists per event loop,
\* under every interleaving; two requests of the same loop that both found no
\* pool do not leave a second live pool, in or out of the registry.
C15_OneLivePoolPerLoop ==
    \A l \in Loops :
        Cardinality({p \in DOMAIN pool_objects : pool_objects[p].loop = l /\ IsLive(p)}) <= 1

\* the task holds a pool: the one get_pool_for_current_loop returned to it, or
\* the one init_db_pool created for it when there was none
HoldsPool(t) == tasks[t].pc \in {"in_use", "error"}

\* C16: the pool get_pool_for_current_loop returns to a task is one that was
\* created for the loop the task runs on; two loops never get the same pool,
\* also after other loops ended and their ids were used again.
C16_PoolBelongsToItsLoop ==
    \A t \in Handlers :
        HoldsPool(t) => pool_objects[tasks[t].pool].loop = tasks[t].loop

\* a task got from the registry the pool another task of its loop had created
\* and still uses, the id of the loop being one that a deallocated loop had before
C16_Witness ==
    \E t, u \in Handlers, l \in Loops :
        /\ t # u
        /\ tasks[t].pc = "in_use"
        /\ tasks[u].pc = "in_use"
        /\ tasks[t].pool = tasks[u].pool
        /\ loops[l].state = "freed"
        /\ loops[l].id = loops[tasks[t].loop].id

\* the pool is in the registry, not closed, and the loop it was created for has
\* stopped
IsOrphaned(p) ==
    /\ p \in DOMAIN pool_objects
    /\ IsRegistered(p)
    /\ ~pool_objects[p].closed
    /\ pool_objects[p].loop # running

\* the pool was closed and taken out of the registry
IsSwept(p) ==
    /\ p \in DOMAIN pool_objects
    /\ ~IsRegistered(p)
    /\ pool_objects[p].closing \/ pool_objects[p].closed

CloseAllPoolsReturns == closer'.returned = closer.returned + 1

NothingSinceCloseAll ==
    \/ pool_objects = <<>>
    \/ /\ closer.returned > 0
       /\ closer.pools_at_return = Len(pool_objects)

\* cleanup_resources is called in this step
CleanupResourcesCalled ==
    /\ closer.pc = "idle"
    /\ shutdown.state # "waiting"
    /\ <<closer, shutdown>>' # <<closer, shutdown>>

\* C19: closing all pools again is harmless: a call made after an earlier one
\* returned, or before any pool was created, ends without an error, closes no
\* pool, and leaves the registry empty.
C19_CloseAllIsIdempotent ==
    [][(NothingSinceCloseAll /\ CleanupResourcesCalled) =>
           /\ closer'.pc = "idle"
           /\ shutdown'.state = "done"
           /\ pool_objects' = pool_objects
           /\ _pools'.pools = <<>>]_vars

\* close_all_pools returned twice; the one pool ever created, the one of
\* init_database, which the first call closed, is closed and the registry is empty
C19_Witness ==
    /\ closer.returned = 2
    /\ Len(pool_objects) = 1
    /\ pool_objects[1].closed
    /\ _pools.pools = <<>>

\* C20: the graceful shutdown ends: on every path of cleanup_resources the wait
\* for the pools to close is bounded by a timeout, so that it returns also when
\* a pool never finishes closing.
C20_ShutdownEnds == (shutdown.state = "waiting") ~> (shutdown.state = "done")

(***************************************************************************)
(* The parser's answer for a batch.                                        *)
(***************************************************************************)
\* parse_query returned: outcome.value is its result (under SpecParser)
Parsed == events # <<>> /\ events[1].ev = "parse_query"

\* the operations of the statements the text was written from
MemberOperations == {StmtOp(request[k]) : k \in DOMAIN request}

\* the highest category among the members: DDL > DML > METADATA
TopCategory ==
    IF \E op \in MemberOperations : CategoryOf(op) = "DDL" THEN "DDL"
    ELSE IF \E op \in MemberOperations : CategoryOf(op) = "DML" THEN "DML"
    ELSE IF \E op \in MemberOperations : CategoryOf(op) = "METADATA" THEN "METADATA"
    ELSE "UNKNOWN"

\* the first of the sets that has a member operation, the empty set if none has
FirstPresent(tiers) ==
    LET present == {i \in DOMAIN tiers : tiers[i] \cap MemberOperations # {}}
    IN  IF present = {} THEN {}
        ELSE tiers[CHOOSE i \in present : \A j \in present : i <= j] \cap MemberOperations

\* the highest operations among the members of the highest category:
\* DROP/TRUNCATE > ALTER > CREATE and DELETE > UPDATE > INSERT > SELECT
TopOperations ==
    IF TopCategory = "DDL"
    THEN FirstPresent(<<{w_DROP, w_TRUNCATE}, {w_ALTER}, {w_CREATE}>>)
    ELSE IF TopCategory = "DML"
    THEN FirstPresent(<<{w_DELETE}, {w_UPDATE}, {w_INSERT}, {w_SELECT}>>)
    ELSE {}

\* C23: for every multi-statement batch the category parse_query resolves is the
\* highest category among the member statements (DDL > DML > METADATA) and the
\* operation is the highest operation among the members of that category
\* (DROP/TRUNCATE > ALTER > CREATE; DELETE > UPDATE > INSERT > SELECT), whatever
\* the order of the statements.
C23_BatchResolvesToHighestMember ==
    (Parsed /\ IsMulti) =>
        /\ outcome.value.category = TopCategory
        /\ TopOperations # {} => outcome.value.operation_type \in TopOperations

\* C24: every result of parse_query, for one statement and for a batch, has
\* category = the category of its operation under the three operation sets (a
\* DDL result never carries SELECT or SHOW, also when the only DDL member is
\* RENAME or the only DML member MERGE), and a result that is not valid has the
\* empty operation.
C24_CategoryIsFunctionOfOperation ==
    Parsed =>
        /\ outcome.value.category = CategoryOf(outcome.value.operation_type)
        /\ ~outcome.value.is_valid => outcome.value.operation_type = <<>>

\* parse_query returned for a batch that starts with a SELECT and whose only DDL
\* member is a RENAME
C24_Witness ==
    /\ Parsed
    /\ IsMulti
    /\ request[1] = st_select
    /\ \E k \in DOMAIN request : request[k] = st_rename
    /\ \A k \in DOMAIN request : CategoryOf(StmtOp(request[k])) = "DDL" => request[k] = st_rename
    /\ outcome.value.is_valid

(***************************************************************************)
(* Streaming and fetch-all reads.                                          *)
(***************************************************************************)
\* the fetchmany calls of a trace, in order
FetchManyEvents(trace) == SelectSeq(trace, LAMBDA e : e.ev = "fetchmany")

\* the trace of a read that streamed its result and met no driver error
StreamedRead(trace) ==
    /\ FetchManyEvents(trace) # <<>>
    /\ \A k \in DOMAIN trace : trace[k].ev \in {"fetchmany", "execute"} => trace[k].ok

\* full batches, then one batch shorter than batch_size (possibly empty), n rows in all
FullBatchesThenShort(fetches, batch_size, n) ==
    /\ \A k \in 1..(Len(fetches) - 1) : fetches[k].got = batch_size
    /\ fetches[Len(fetches)].got < batch_size
    /\ (Len(fetches) - 1) * batch_size + fetches[Len(fetches)].got = n

\* C25: every execute_query call that streams a read (any number of rows, any
\* batch size >= 1) ends and returns the rows, in order, that the same call
\* returns without streaming; its fetchmany calls are full batches followed by
\* exactly one batch shorter than batch_size, which is empty when the number of
\* rows is a multiple of batch_size.
C25_StreamingEqualsFetchAll ==
    [][(events = <<>> /\ events' # <<>> /\ StreamedRead(events')) =>
          \A input \in QueryInputs, driver \in Drivers, batch_size \in 1..MaxBatchSize :
              (/\ events'[1] = EvCheck(input.text, TRUE)
               /\ FetchManyEvents(events')[1].size = batch_size
               /\ driver.fail_op = "none"
               /\ events' = execute_query(sql_analyzer, input, batch_size, TRUE, driver, 1).events)
              => /\ outcome'.raised = ""
                 /\ outcome'.value
                        = execute_query(sql_analyzer, input, batch_size, FALSE, driver, 1).value
                 /\ FullBatchesThenShort(FetchManyEvents(events'), batch_size, driver.nrows)]_vars

\* a streamed read returned its rows after a full batch and an empty one
C25_Witness ==
    /\ outcome.raised = ""
    /\ events # <<>>
    /\ StreamedRead(events)
    /\ LET fetches == FetchManyEvents(events)
       IN  /\ Len(fetches) >= 2
           /\ fetches[Len(fetches) - 1].got = fetches[Len(fetches) - 1].size
           /\ fetches[Len(fetches)].got = 0
           /\ Len(outcome.value) = (Len(fetches) - 1) * fetches[1].size

(***************************************************************************)
(* What the interceptor assessed and what the engine derives.              *)
(***************************************************************************)
\* C29: for every text check_operation admits in execute_query and the driver
\* executes, the operation and the category execute_query derives with parse_query to choose its branch
\* (mutation with commit, metadata, read) are the operation and the category
\* analyze_risk assessed for the interceptor.
C29_AdmissionAndExecutionAgree ==
    [][\A input \in QueryInputs :
          (/\ events = <<>> /\ events' # <<>>
           /\ events'[1] = EvCheck(input.text, TRUE)
           /\ \E k \in DOMAIN events' : events'[k] = EvExecute(input.text, TRUE))
          => LET assessed == analyze_risk(sql_analyzer, input.text)
                 parsed_sql == parse_query(input)
             IN  /\ parsed_sql.operation_type = assessed.operation
                 /\ parsed_sql.category = assessed.operation_type]_vars

(***************************************************************************)
(* Tool calls: what reaches the caller, and the connection of the scope.   *)
(***************************************************************************)
\* the call in progress is a call of a tool
ToolCalled == events # <<>> /\ events[1].ev = "call"

\* check_operation denied the statement of the call
DeniedInCall == \E k \in DOMAIN events : events[k].ev = "check_operation" /\ ~events[k].ok

\* C21: no exception leaves a tool handler, and a tool call whose statement the
\* interceptor denied answers with an error object of the security-denial kind,
\* not of the connection, query-execution or unexpected kind.
C21_DenialReachesCallerAsDenial ==
    ToolCalled =>
        /\ outcome.raised = ""
        /\ DeniedInCall => outcome.value[1].error_type = "SecurityException"

\* the connections checked out after the first i events of the call
HeldAfter(i) ==
    Cardinality({k \in 1..i : events[k].ev = "acquire" /\ events[k].ok})
        - Cardinality({k \in 1..i : events[k].ev = "release"})

\* C22: at every point of a call at most one connection is checked out, and when
\* the call has ended (returned, denied by the interceptor, failed in the driver,
\* failed otherwise) every connection its scope acquired was released.
C22_ConnectionAlwaysReleased ==
    /\ \A i \in DOMAIN events : HeldAfter(i) \in {0, 1}
    /\ HeldAfter(Len(events)) = 0

\* a tool call acquired a connection, the interceptor denied its statement, and
\* the connection was released after the denial
C22_Witness ==
    /\ ToolCalled
    /\ \E i, j, k \in DOMAIN events :
        /\ i < j /\ j < k
        /\ events[i] = EvAcquire(TRUE)
        /\ events[j].ev = "check_operation" /\ ~events[j].ok
        /\ events[k] = EvRelease
    /\ outcome.raised = ""
    /\ outcome.value[1].error_type \in {"UnexpectedError", "QueryExecutionError"}

(***************************************************************************)
(* The error of a pool creation that failed.                               *)
(***************************************************************************)
\* init_db_pool was called by itself
InitDbPoolCalled == events # <<>> /\ events[1].ev = "init_db_pool"

\* the specific kinds the phrases of a driver message stand for
SpecificKinds(error_msg) ==
    {kind \in {"MySQLAuthError", "MySQLDatabaseNotFoundError", "MySQLServerError",
               "MySQLAuthPluginError"} :
        \/ kind = "MySQLAuthError" /\ has_phrase("Access denied", error_msg)
        \/ kind = "MySQLDatabaseNotFoundError" /\ has_phrase("Unknown database", error_msg)
        \/ kind = "MySQLServerError"
               /\ (has_phrase("Can't connect", error_msg) \/ has_phrase("Connection refused", error_msg))
        \/ kind = "MySQLAuthPluginError" /\ has_phrase("Authentication plugin", error_msg)}

\* C27: an init_db_pool call that fails raises the specific kind of its cause:
\* MySQLDatabaseNotFoundError for a required database name that is not configured,
\* the kind a phrase of the driver message stands for, and the generic
\* MySQLConnectionError only when no phrase matches; it makes one create_pool
\* call at most and registers no pool.
C27_PoolCreationErrorIsSpecific ==
    (InitDbPoolCalled /\ outcome.raised # "") =>
        /\ IF events[1].require_database /\ ~events[1].db_set
           THEN outcome.raised = "MySQLDatabaseNotFoundError"
           ELSE LET specific == SpecificKinds(events[2].failure.message)
                IN  IF specific # {} THEN outcome.raised \in specific
                    ELSE outcome.raised = "MySQLConnectionError"
        /\ Cardinality({k \in DOMAIN events : events[k].ev = "create_pool"}) <= 1
        /\ \A k \in DOMAIN events : events[k] # EvRegister

(***************************************************************************)
(* The registry: creation, sweep and shutdown.                             *)
(***************************************************************************)
\* the step is the start of a get_db_connection call: a free task takes a request
\* (get_pool_for_current_loop runs, with its sweep)
RequestStarts == \E t \in Handlers : tasks[t].pc = "idle" /\ tasks'[t].pc # "idle"

\* the step is an init_db_pool that stores a new pool
PoolCreated == Len(pool_objects') > Len(pool_objects)

\* the pool get_pool_for_current_loop would give the running loop, 0 for none
RegisteredForRunning == get_pool_for_current_loop(_pools, pool_objects, loops[running].id)

\* C26: a request is never given a closed pool; a pool is created only when the
\* running loop has no registered pool that is not closed; and a pool that was
\* closed stays closed.
C26_PoolCreatedOnlyWhenNeeded ==
    [][/\ RequestStarts =>
              \A t \in Handlers :
                  (tasks[t].pc = "idle" /\ tasks'[t].pc = "in_use")
                      => ~pool_objects'[tasks'[t].pool].closed
       /\ (PoolCreated /\ running # 0) => RegisteredForRunning = 0
       /\ \A p \in DOMAIN pool_objects :
              /\ pool_objects[p].closed => pool_objects'[p].closed
              /\ pool_objects[p].closing => pool_objects'[p].closing]_vars

\* the loop object the pool was created for exists
OwnerExists(p) == loops[pool_objects[p].loop].state = "open"

\* C28: the sweep a request starts with neither closes nor removes a registered
\* pool whose loop still exists, whether or not that loop is the running one, and
\* a sweep less than _cleanup_interval after the last one changes neither the
\* registry nor any pool.
C28_SweepSparesLivingOwners ==
    [][RequestStarts =>
          /\ \A i \in DOMAIN _pools.pools :
                 LET item == _pools.pools[i]
                 IN  (OwnerExists(item.pool) /\ ~pool_objects[item.pool].closed)
                     => /\ \E j \in DOMAIN _pools'.pools : _pools'.pools[j] = item
                        /\ pool_objects'[item.pool].closing = pool_objects[item.pool].closing
          /\ now - _last_cleanup < _cleanup_interval
                 => _pools' = _pools /\ pool_objects' = pool_objects]_vars

\* a registered pool is open: neither closed nor being closed
OpenPoolRegistered ==
    \E i \in DOMAIN _pools.pools :
        /\ ~pool_objects[_pools.pools[i].pool].closing
        /\ ~pool_objects[_pools.pools[i].pool].closed

\* C30: when cleanup_resources is called for the first time after a startup whose
\* init_database failed, and a pool a request created later is registered and
\* open, close_all_pools is invoked.
C30_ShutdownClosesLazyPools ==
    [][(/\ shutdown.state = "none" /\ shutdown'.state # "none"
        /\ ~_server_data.db_initialized
        /\ OpenPoolRegistered)
       => closer' # closer]_vars

====
